---------------------------- MODULE Spec2Model ----------------------------
(***************************************************************************)
(* Model of the novel-injector extension: the paragraph chunker            *)
(* (core/textProcessor.js), the novel store (core/fileManager.js), the     *)
(* storage helper (utils/storage.js) and the injection controller          *)
(* (core/injectionEngine.js).                                              *)
(*                                                                         *)
(* A JavaScript string is a sequence of one-character atoms.  The module   *)
(* is ASCII, so every non-ASCII character is written as a named atom (its  *)
(* code point is given where the atom is defined).  The fixed HTML         *)
(* fragments of the collapsible template are single opaque atoms.          *)
(***************************************************************************)
EXTENDS Integers, Sequences, FiniteSets, TLC

(***************************************************************************)
(* Bounds of the model.                                                    *)
(***************************************************************************)
MaxParas == 3
MaxBudget == 3
MaxInflight == 2
MaxDelay == 2

(***************************************************************************)
(* Characters.                                                             *)
(***************************************************************************)
\* The numerals of the chapter patterns, U+4E00 U+4E8C U+4E09 U+56DB U+4E94
\* U+516D U+4E03 U+516B U+4E5D U+5341 U+767E U+5343 U+4E07.
ChineseNumerals ==
  {"yi", "er", "san", "si", "wu", "liu", "qi", "ba", "jiu", "shi", "bai", "qian", "wan"}

\* CJK ideographs U+4E00..U+9FFF: zhong U+4E2D, di U+7B2C, zhang U+7AE0,
\* jie U+8282, the characters of the marker literal (xiao U+5C0F, shuo
\* U+8BF4, zhu U+6CE8, ru U+5165, qi4 U+5668, zi U+81EA, dong U+52A8) and of
\* the default title (wei U+672A, zhi U+77E5).
Ideographs ==
  ChineseNumerals \cup
  {"zhong", "di", "zhang", "jie", "xiao", "shuo", "zhu", "ru", "qi4", "zi", "dong",
   "wei", "zhi"}

\* CJK punctuation U+3000..U+303F (juhao U+3002, dunhao U+3001) and the
\* full-width forms U+FF01..U+FF5E (fw_excl U+FF01, fw_quest U+FF1F,
\* fw_rparen U+FF09, fw_colon U+FF1A).
CJKPunct == {"juhao", "dunhao", "fw_excl", "fw_quest", "fw_rparen", "fw_colon"}

\* The character class of countWords: U+4E00..U+9FFF, U+3000..U+303F,
\* U+FF01..U+FF5E.
CJKClass == Ideographs \cup CJKPunct

\* The characters \s matches.
WhiteSpace == {" ", "\n"}

Digits == {"0", "1", "2", "3", "4", "5", "6", "7", "8", "9"}

(***************************************************************************)
(* String helpers (String.prototype methods the code uses).                *)
(***************************************************************************)
RECURSIVE TrimLeft(_)
TrimLeft(s) ==
  IF s = <<>> THEN <<>>
  ELSE IF Head(s) \in WhiteSpace THEN TrimLeft(Tail(s)) ELSE s

RECURSIVE TrimRight(_)
TrimRight(s) ==
  IF s = <<>> THEN <<>>
  ELSE IF s[Len(s)] \in WhiteSpace THEN TrimRight(SubSeq(s, 1, Len(s) - 1)) ELSE s

\* String.prototype.trim
Trim(s) == TrimRight(TrimLeft(s))

\* String.prototype.substring(0, n)
Substring0(s, n) == SubSeq(s, 1, IF n < Len(s) THEN n ELSE Len(s))

\* String.prototype.includes
Includes(s, needle) ==
  \E i \in 1..(Len(s) - Len(needle) + 1) : SubSeq(s, i, i + Len(needle) - 1) = needle

\* Array.prototype.join(sep)
RECURSIVE Join(_, _)
Join(list, sep) ==
  IF list = <<>> THEN <<>>
  ELSE IF Len(list) = 1 THEN list[1]
  ELSE list[1] \o sep \o Join(Tail(list), sep)

\* Number -> decimal string (template literal / implicit conversion).
RECURSIVE NumStr(_)
NumStr(n) ==
  LET d == <<"0", "1", "2", "3", "4", "5", "6", "7", "8", "9">>
  IN IF n < 10 THEN <<d[n + 1]>> ELSE NumStr(n \div 10) \o <<d[(n % 10) + 1]>>

\* String.prototype.replace(pattern, value) with a string pattern: the
\* first occurrence only.
ReplaceFirst(s, pat, val) ==
  LET hits == {i \in 1..(Len(s) - Len(pat) + 1) : SubSeq(s, i, i + Len(pat) - 1) = pat}
  IN IF hits = {} THEN s
     ELSE LET i == CHOOSE x \in hits : \A y \in hits : x <= y
          IN SubSeq(s, 1, i - 1) \o val \o SubSeq(s, i + Len(pat), Len(s))

(***************************************************************************)
(* TextProcessor (core/textProcessor.js).                                  *)
(***************************************************************************)
defaultTargetWordCount == 500
ShortParagraphWords == 100

\* countWords: CJK characters one by one, plus the whitespace-delimited
\* tokens that remain once every CJK character is blanked out.
countWords(text) ==
  LET cleanText == Trim(text)
      blank(i) == cleanText[i] \in CJKClass \/ cleanText[i] \in WhiteSpace
      chineseChars == Cardinality({i \in 1..Len(cleanText) : cleanText[i] \in CJKClass})
      englishWords == Cardinality({i \in 1..Len(cleanText) :
                          ~blank(i) /\ (i = 1 \/ blank(i - 1))})
  IN IF Len(cleanText) = 0 THEN 0 ELSE chineseChars + englishWords

\* The terminal punctuation of isGoodBreakPoint: rdquo U+201D, rsquo U+2019,
\* ellipsis U+2026.
chineseEndings == {"juhao", "fw_excl", "fw_quest", "rdquo", "rsquo", ")", "fw_rparen", "ellipsis"}
englishEndings == {".", "!", "?", "\"", "'", ")"}

isGoodBreakPoint(paragraph) ==
  LET t == Trim(paragraph)
  IN IF paragraph = <<>> \/ t = <<>> THEN FALSE
     ELSE t[Len(t)] \in chineseEndings \/ t[Len(t)] \in englishEndings

\* String.prototype.split('\n')
RECURSIVE SplitLines(_)
SplitLines(s) ==
  IF \A i \in 1..Len(s) : s[i] # "\n" THEN <<s>>
  ELSE LET k == CHOOSE i \in 1..Len(s) : s[i] = "\n" /\ \A j \in 1..(i - 1) : s[j] # "\n"
       IN <<SubSeq(s, 1, k - 1)>> \o SplitLines(SubSeq(s, k + 1, Len(s)))

\* Length of the longest run of characters of class cls starting at s[i].
RECURSIVE RunLen(_, _, _)
RunLen(s, i, cls) ==
  IF i > Len(s) THEN 0
  ELSE IF s[i] \in cls THEN 1 + RunLen(s, i + 1, cls) ELSE 0

\* The /i flag of the two Latin patterns.
LowerCase(c) ==
  IF c = "C" THEN "c" ELSE IF c = "H" THEN "h" ELSE IF c = "A" THEN "a"
  ELSE IF c = "P" THEN "p" ELSE IF c = "T" THEN "t" ELSE IF c = "E" THEN "e"
  ELSE IF c = "R" THEN "r" ELSE c

LowerStr(s) == [i \in 1..Len(s) |-> LowerCase(s[i])]

\* The character class [numerals \d] of the chapter patterns.
NumeralClass == ChineseNumerals \cup Digits

\* chapterPatterns, tested on a trimmed line.
matchesChapterPattern(line) ==
  LET at(i) == IF i <= Len(line) THEN line[i] ELSE "EOS"
      k2 == RunLen(line, 2, NumeralClass)
      st == IF at(1) = "di" THEN 2 ELSE 1
      k3 == RunLen(line, st, NumeralClass)
      low == LowerStr(line)
      ws7 == RunLen(line, 8, WhiteSpace)
      ws3 == RunLen(line, 4, WhiteSpace)
  IN \/ at(1) = "di" /\ k2 >= 1 /\ at(2 + k2) = "zhang"
     \/ at(1) = "di" /\ k2 >= 1 /\ at(2 + k2) = "jie"
     \/ k3 >= 1 /\ at(st + k3) \in {"dunhao", "."}
     \/ Len(line) >= 7 /\ SubSeq(low, 1, 7) = <<"c", "h", "a", "p", "t", "e", "r">>
          /\ ws7 >= 1 /\ at(8 + ws7) \in Digits
     \/ Len(line) >= 3 /\ SubSeq(low, 1, 3) = <<"c", "h", ".">>
          /\ at(4 + ws3) \in Digits

ChapterLabelMax == 50
ParagraphsPerChapter == 50

\* extractChapter returning the matching line whole, however long.
extractChapterWhole(content, paragraphIndex) ==
  LET fallback == <<"di">> \o NumStr((paragraphIndex \div ParagraphsPerChapter) + 1)
                    \o <<"zhang">>
      lines == SplitLines(content)
      hits == {i \in 1..Len(lines) : matchesChapterPattern(Trim(lines[i]))}
  IN IF content = <<>> \/ hits = {} THEN fallback
     ELSE Trim(lines[CHOOSE i \in hits : \A j \in hits : i <= j])

\* extractChapter(content, paragraphIndex)
extractChapter(content, paragraphIndex) ==
  LET fallback == <<"di">> \o NumStr((paragraphIndex \div ParagraphsPerChapter) + 1)
                    \o <<"zhang">>
      lines == SplitLines(content)
      hits == {i \in 1..Len(lines) : matchesChapterPattern(Trim(lines[i]))}
  IN IF content = <<>> \/ hits = {} THEN fallback
     ELSE LET first == CHOOSE i \in hits : \A j \in hits : i <= j
              trimmedLine == Trim(lines[first])
          IN IF Len(trimmedLine) > ChapterLabelMax
             THEN Substring0(trimmedLine, ChapterLabelMax) \o <<".", ".", ".">>
             ELSE trimmedLine

\* The value getNextChunk returns when there is nothing to deliver (null).
NoChunk ==
  [content |-> <<>>, startParagraph |-> -1, endParagraph |-> -1,
   paragraphCount |-> 0, wordCount |-> 0, chapter |-> <<>>]

\* The test made before a paragraph is added, looking at the words
\* collected so far only.
wouldExceedLate(totalWordCount, paragraphWordCount, targetWordCount) ==
  totalWordCount > targetWordCount

\* The test made before a paragraph is added: the chunk has content and the
\* paragraph would take it over the budget.
wouldExceed(totalWordCount, paragraphWordCount, targetWordCount) ==
  totalWordCount > 0 /\ totalWordCount + paragraphWordCount > targetWordCount

\* The test made after a paragraph is added, one word too early.
reachedTargetEarly(totalWordCount, targetWordCount) ==
  totalWordCount + 1 >= targetWordCount

\* The test made after a paragraph is added: the chunk has reached the
\* target word count.
reachedTarget(totalWordCount, targetWordCount) ==
  totalWordCount >= targetWordCount

\* The loop without the totalWordCount > 0 guard of the budget check.
RECURSIVE collectParagraphsNoGuard(_, _, _, _, _)
collectParagraphsNoGuard(paragraphs, i, totalWordCount, endParagraph, targetWordCount) ==
  IF i >= Len(paragraphs)
  THEN [endParagraph |-> endParagraph, totalWordCount |-> totalWordCount]
  ELSE
    LET paragraph == paragraphs[i + 1]
        w == totalWordCount + countWords(paragraph)
        stop == [endParagraph |-> i + 1, totalWordCount |-> w]
    IN IF w > targetWordCount
       THEN [endParagraph |-> endParagraph, totalWordCount |-> totalWordCount]
       ELSE IF w >= targetWordCount
            THEN IF isGoodBreakPoint(paragraph) THEN stop
                 ELSE IF i + 1 < Len(paragraphs)
                         /\ countWords(paragraphs[i + 2]) < ShortParagraphWords
                      THEN collectParagraphsNoGuard(paragraphs, i + 1, w, i + 1,
                                                    targetWordCount)
                      ELSE stop
            ELSE collectParagraphsNoGuard(paragraphs, i + 1, w, i + 1, targetWordCount)

\* The collection loop of getNextChunk, from 0-based index i with the
\* running totals; yields the final endParagraph and totalWordCount.
RECURSIVE collectParagraphs(_, _, _, _, _)
collectParagraphs(paragraphs, i, totalWordCount, endParagraph, targetWordCount) ==
  IF i >= Len(paragraphs)
  THEN [endParagraph |-> endParagraph, totalWordCount |-> totalWordCount]
  ELSE
    LET paragraph == paragraphs[i + 1]
        paragraphWordCount == countWords(paragraph)
        w == totalWordCount + paragraphWordCount
        stop == [endParagraph |-> i + 1, totalWordCount |-> w]
    IN IF wouldExceed(totalWordCount, paragraphWordCount, targetWordCount)
       THEN [endParagraph |-> endParagraph, totalWordCount |-> totalWordCount]
       ELSE IF reachedTarget(w, targetWordCount)
            THEN IF isGoodBreakPoint(paragraph) THEN stop
                 ELSE IF i + 1 < Len(paragraphs)
                         /\ countWords(paragraphs[i + 2]) < ShortParagraphWords
                      THEN collectParagraphs(paragraphs, i + 1, w, i + 1, targetWordCount)
                      ELSE stop
            ELSE collectParagraphs(paragraphs, i + 1, w, i + 1, targetWordCount)

\* getNextChunk reporting an endParagraph one past the paragraphs it
\* collected, so that the paragraph after each chunk is skipped.
tpGetNextChunkSkipsOne(novel, currentParagraph, targetWordCountSetting) ==
  IF ~novel.exists \/ ~novel.loaded THEN NoChunk
  ELSE
    LET targetWordCount == IF targetWordCountSetting = 0 THEN defaultTargetWordCount
                           ELSE targetWordCountSetting
        paragraphs == novel.paragraphs
    IN IF currentParagraph >= Len(paragraphs) THEN NoChunk
       ELSE
         LET r == collectParagraphs(paragraphs, currentParagraph, 0, currentParagraph,
                                    targetWordCount)
             collected == SubSeq(paragraphs, currentParagraph + 1, r.endParagraph)
             content == Join(collected, <<"\n", "\n">>)
         IN IF Len(collected) = 0 THEN NoChunk
            ELSE [content |-> content,
                  startParagraph |-> currentParagraph,
                  endParagraph |-> r.endParagraph + 1,
                  paragraphCount |-> Len(collected),
                  wordCount |-> r.totalWordCount,
                  chapter |-> extractChapter(content, currentParagraph)]

\* TextProcessor.getNextChunk, on the novel record getNovel returned
\* (NoNovel when the id is unknown) and the processor's settings.
\* targetWordCount 0 stands for an unset (falsy) setting.
tpGetNextChunk(novel, currentParagraph, targetWordCountSetting) ==
  IF ~novel.exists \/ ~novel.loaded THEN NoChunk
  ELSE
    LET targetWordCount == IF targetWordCountSetting = 0 THEN defaultTargetWordCount
                           ELSE targetWordCountSetting
        paragraphs == novel.paragraphs
    IN IF currentParagraph >= Len(paragraphs) THEN NoChunk
       ELSE
         LET r == collectParagraphs(paragraphs, currentParagraph, 0, currentParagraph,
                                    targetWordCount)
             collected == SubSeq(paragraphs, currentParagraph + 1, r.endParagraph)
             content == Join(collected, <<"\n", "\n">>)
         IN IF Len(collected) = 0 THEN NoChunk
            ELSE [content |-> content,
                  startParagraph |-> currentParagraph,
                  endParagraph |-> r.endParagraph,
                  paragraphCount |-> Len(collected),
                  wordCount |-> r.totalWordCount,
                  chapter |-> extractChapter(content, currentParagraph)]

(***************************************************************************)
(* State.                                                                  *)
(***************************************************************************)
VARIABLES
  novels,             \* FileManager.novels: the novel object of every id
  files,              \* the text of each novel's file on the server
  storage,            \* extension_settings['novel-injector']
  isEnabled,          \* InjectionEngine.isEnabled
  activeNovelId,      \* InjectionEngine.activeNovelId
  isAutoPilotEnabled, \* InjectionEngine.isAutoPilotEnabled
  autoPilotDelay,     \* InjectionEngine.autoPilotDelay (milliseconds)
  autoPilotTimer,     \* InjectionEngine.autoPilotTimer (0: null)
  settings,           \* InjectionEngine.settings
  tpSettings,         \* TextProcessor.settings
  timers,             \* the host's pending setTimeout timers
  inflight,           \* handleInterception calls suspended in a fetch
  out,                \* what the act-path invocation ended by the last step did
  fired,              \* the timer the last step fired
  cleared,            \* the pending timers the last step cancelled
  reported,           \* per novel, the exhaustion reports since its last reset
  listNovels,         \* NovelListUI.novels: the ids the list shows
  listActiveNovelId,  \* NovelListUI.activeNovelId
  deleting,           \* the novels whose delete request is in flight
  uiSettings,         \* SettingsUI.settings
  panelShared,        \* SettingsUI.settings is the object start-up read from storage
  settingsShared,     \* the controller's settings are the object start-up read
  cCursor,            \* chunker harness: the cursor of the next call
  cStart,             \* chunker harness: the cursor of the first call
  cChunks,            \* chunker harness: the chunks returned so far
  cLast,              \* chunker harness: the last call and its result
  pluginEnabled,      \* UIManager.pluginEnabledCheckbox.checked
  chunkSizeInput,     \* UIManager.chunkSizeInput.value, parsed (0: not a number)
  novelParagraphs,    \* NovelManager.novelParagraphs
  currentIndex,       \* NovelManager.currentIndex
  wsRequests,         \* the chunk requests on their way to the backend
  wsResponses,        \* the answers on their way to the settings page
  wsSent              \* the calls of the host's sendMessage the last step made

vars ==
  <<novels, files, storage, isEnabled, activeNovelId, isAutoPilotEnabled,
    autoPilotDelay, autoPilotTimer, settings, tpSettings, timers, inflight,
    out, fired, cleared, reported, listNovels, listActiveNovelId, deleting,
    uiSettings, panelShared, settingsShared,
    cCursor, cStart, cChunks, cLast,
    pluginEnabled, chunkSizeInput, novelParagraphs, currentIndex, wsRequests,
    wsResponses, wsSent>>

engineVars ==
  <<storage, isEnabled, activeNovelId, isAutoPilotEnabled, autoPilotDelay,
    autoPilotTimer, settings, timers, inflight, out, fired, cleared,
    reported, settingsShared>>

\* The state of the novel list of the settings panel.
listVars == <<listNovels, listActiveNovelId, deleting, uiSettings, panelShared>>

harnessVars == <<cCursor, cStart, cChunks, cLast>>

\* The state of the interception over the WebSocket (ui/uiManager.js and
\* its backend).
legacyVars ==
  <<pluginEnabled, chunkSizeInput, novelParagraphs, currentIndex, wsRequests,
    wsResponses, wsSent>>

NovelIds == {"n1", "n2"}

\* activeNovelId null.
NoId == "null"

(***************************************************************************)
(* Paragraphs the novels of the model are made of.                         *)
(***************************************************************************)
\* "a": one word, no terminal punctuation.
ParaWord == <<"a">>
\* U+4E2D U+3002: two words, ends on a full stop.
ParaSentence == <<"zhong", "juhao">>
\* U+7B2C U+4E00 U+7AE0: a chapter heading, three words.
ParaHeading == <<"di", "yi", "zhang">>
\* 100 ideographs: not a short paragraph for the lookahead.
ParaLong == [i \in 1..ShortParagraphWords |-> "zhong"]

ParaLib == {ParaWord, ParaSentence, ParaHeading, ParaLong}

RECURSIVE SeqsUpTo(_, _)
SeqsUpTo(S, n) ==
  IF n = 0 THEN {<<>>}
  ELSE LET shorter == SeqsUpTo(S, n - 1)
       IN shorter \cup {Append(q, x) : q \in {r \in shorter : Len(r) = n - 1}, x \in S}

BlankLine == <<"\n", "\n">>

(***************************************************************************)
(* Storage (utils/storage.js).                                             *)
(***************************************************************************)
\* setStorage(key, value): settings[key] = value.
setStorage(st, key, value) == [st EXCEPT ![key] = value]

\* getStorage(key)
getStorage(st, key) == st[key]

(***************************************************************************)
(* FileManager (core/fileManager.js).                                      *)
(***************************************************************************)
\* content.replace(/\r\n/g, '\n').replace(/\r/g, '\n')
RECURSIVE replaceCarriageReturns(_)
replaceCarriageReturns(s) ==
  IF s = <<>> THEN <<>>
  ELSE IF Head(s) = "\r"
       THEN IF Len(s) >= 2 /\ s[2] = "\n"
            THEN <<"\n">> \o replaceCarriageReturns(SubSeq(s, 3, Len(s)))
            ELSE <<"\n">> \o replaceCarriageReturns(Tail(s))
       ELSE <<Head(s)>> \o replaceCarriageReturns(Tail(s))

normalizeNewlines(s) ==
  IF \A i \in 1..Len(s) : s[i] # "\r" THEN s ELSE replaceCarriageReturns(s)

\* split(/\n\s*\n/): a separator runs from a newline to the last newline of
\* the white space that follows it.
RECURSIVE splitBlankLines(_)
splitBlankLines(s) ==
  LET lastNl(i) == {k \in (i + 1)..(i + RunLen(s, i + 1, WhiteSpace)) : s[k] = "\n"}
      seps == {i \in 1..Len(s) : s[i] = "\n" /\ lastNl(i) # {}}
  IN IF seps = {} THEN <<s>>
     ELSE LET i == CHOOSE x \in seps : \A y \in seps : x <= y
              k == CHOOSE x \in lastNl(i) : \A y \in lastNl(i) : y <= x
          IN <<SubSeq(s, 1, i - 1)>> \o splitBlankLines(SubSeq(s, k + 1, Len(s)))

\* parseParagraphs(content)
parseParagraphs(content) ==
  IF content = <<>> THEN <<>>
  ELSE LET parts == splitBlankLines(normalizeNewlines(content))
           trimmed == [i \in 1..Len(parts) |-> Trim(parts[i])]
       IN SelectSeq(trimmed, LAMBDA q : Len(q) > 0)

\* The novelData object uploadNovel builds from the parsed paragraphs.
novelData(id, paragraphs) ==
  [exists |-> TRUE, id |-> id, title |-> <<id>>,
   totalParagraphs |-> Len(paragraphs), currentParagraph |-> 0,
   loaded |-> TRUE, paragraphs |-> paragraphs]

\* What Map.get yields for an id that is not in the map.
NoNovel ==
  [exists |-> FALSE, id |-> NoId, title |-> <<>>, totalParagraphs |-> 0,
   currentParagraph |-> 0, loaded |-> FALSE, paragraphs |-> <<>>]

\* FileManager.getNovel on the map nv.
getNovelIn(nv, novelId) ==
  IF novelId \in DOMAIN nv /\ nv[novelId].exists THEN nv[novelId] ELSE NoNovel

getNovel(novelId) == getNovelIn(novels, novelId)

\* fileManager.getAllNovels(): the ids of the novels of the map nv.
getAllNovels(nv) == {id \in DOMAIN nv : nv[id].exists}

\* NovelListUI.refresh(): the list copies the novels of the store and the
\* active novel of the controller.  refreshed: the list is as refresh() left
\* it; refresh: it is so after the step.
refreshed(nv, active) ==
  /\ listNovels = getAllNovels(nv)
  /\ listActiveNovelId = active

refresh(nv, active) ==
  /\ listNovels' = getAllNovels(nv)
  /\ listActiveNovelId' = active

\* The metadata saveNovelsData writes: every novel of the map without its
\* paragraphs.
novelsMetadata(nv) ==
  [id \in {x \in DOMAIN nv : nv[x].exists} |->
     [id |-> id, title |-> nv[id].title,
      totalParagraphs |-> nv[id].totalParagraphs,
      currentParagraph |-> nv[id].currentParagraph]]

\* saveNovelsData
saveNovelsData(st, nv) == setStorage(st, "novels", novelsMetadata(nv))

Max(a, b) == IF a > b THEN a ELSE b
Min(a, b) == IF a < b THEN a ELSE b

\* The cursor without the floor of Math.max(0, ...).
clampProgressNoFloor(paragraphIndex, totalParagraphs) ==
  Min(paragraphIndex, totalParagraphs - 1)

\* The cursor updateProgress stores for paragraphIndex.
clampProgress(paragraphIndex, totalParagraphs) ==
  Max(0, Min(paragraphIndex, totalParagraphs - 1))

\* updateProgress on a novel that exists: the map after the call.
updateProgress(nv, novelId, paragraphIndex) ==
  [nv EXCEPT ![novelId].currentParagraph =
     clampProgress(paragraphIndex, nv[novelId].totalParagraphs)]

\* reloadNovelContent after its fetch returned the file: the map after it.
reloadNovelContent(nv, novelId) ==
  [nv EXCEPT ![novelId].paragraphs = parseParagraphs(files[novelId]),
             ![novelId].loaded = TRUE]

(***************************************************************************)
(* InjectionEngine (core/injectionEngine.js): texts and formatting.        *)
(***************************************************************************)
\* '[' U+5C0F U+8BF4 U+6CE8 U+5165 U+5668 ']'
MarkerZh == <<"[", "xiao", "shuo", "zhu", "ru", "qi4", "]">>

\* '[Novel Injector]'
MarkerEn ==
  <<"[", "N", "o", "v", "e", "l", " ", "I", "n", "j", "e", "c", "t", "o", "r", "]">>

\* isNovelContent(text)
isNovelContent(text) == Includes(text, MarkerZh) \/ Includes(text, MarkerEn)

\* The marker formatChunkContent appends: '\n\n[' U+5C0F U+8BF4 U+6CE8 U+5165
\* U+5668 ' - ' U+81EA U+52A8 U+6CE8 U+5165 ']'.
InjectedSuffix ==
  <<"\n", "\n", "[", "xiao", "shuo", "zhu", "ru", "qi4", " ", "-", " ",
    "zi", "dong", "zhu", "ru", "]">>

PhTitle == <<"{", "t", "i", "t", "l", "e", "}">>
PhChapter == <<"{", "c", "h", "a", "p", "t", "e", "r", "}">>
PhStartPara == <<"{", "s", "t", "a", "r", "t", "_", "p", "a", "r", "a", "}">>
PhEndPara == <<"{", "e", "n", "d", "_", "p", "a", "r", "a", "}">>
PhProgress == <<"{", "p", "r", "o", "g", "r", "e", "s", "s", "}">>

\* U+672A U+77E5 U+5C0F U+8BF4, the title of a novel that is not found.
UnknownTitle == <<"wei", "zhi", "xiao", "shuo">>

PreviewLength == 100

\* createCollapsibleContent(novelContent, originalText).  The fixed pieces of
\* the template are opaque atoms; "<Date.now()>" is the time stamp of the id.
createCollapsibleContent(novelContent, originalText) ==
  LET contentId == <<"novel_content_", "<Date.now()>">>
      shortPreview == Substring0(novelContent, PreviewLength)
                        \o (IF Len(novelContent) > PreviewLength
                            THEN <<".", ".", ".">> ELSE <<>>)
  IN <<"\n", "<div collapsible><div header onclick=toggleNovelContent('">>
       \o contentId
       \o <<"')><strong>...</strong><span preview>">>
       \o shortPreview
       \o <<"</span></div><div id=">>
       \o contentId
       \o <<" content style=display:none><div text>">>
       \o novelContent
       \o <<"</div></div></div>", "\n">>
       \o (IF originalText # <<>>
           THEN <<"\n", "<user original input: >">> \o originalText ELSE <<>>)
       \o <<"\n", " ", " ", " ", " ", " ", " ", " ", " ">>

\* formatChunkContent(chunk, originalText), with the engine's settings st and
\* the novel getNovel(activeNovelId) returned.
formatChunkContent(st, novel, chunk, originalText) ==
  LET title == IF novel.exists /\ novel.title # <<>> THEN novel.title ELSE UnknownTitle
      total == IF novel.exists THEN novel.totalParagraphs ELSE 0
      r1 == ReplaceFirst(st.prefixTemplate, PhTitle, title)
      r2 == ReplaceFirst(r1, PhChapter,
                         IF chunk.chapter # <<>> THEN chunk.chapter ELSE <<"1">>)
      r3 == ReplaceFirst(r2, PhStartPara, NumStr(chunk.startParagraph + 1))
      r4 == ReplaceFirst(r3, PhEndPara, NumStr(chunk.endParagraph))
      prefix == ReplaceFirst(r4, PhProgress,
                             NumStr(chunk.endParagraph) \o <<"/">> \o NumStr(total))
      c1 == IF st.prefixTemplate # <<>> THEN prefix \o BlankLine ELSE <<>>
      c2 == IF st.collapseContent
            THEN c1 \o createCollapsibleContent(chunk.content, originalText)
            ELSE c1 \o chunk.content
  IN c2 \o InjectedSuffix

\* The settings record with every key unset.
NoSettings ==
  [enabled |-> FALSE, activeNovelId |-> NoId, autopilotEnabled |-> FALSE,
   autopilotDelay |-> 0, targetWordCount |-> 0, prefixTemplate |-> <<>>,
   collapseContent |-> FALSE]

\* saveSettings: the object the engine builds and stores.
engineSettings(st, en, active, ap, delayMs) ==
  [st EXCEPT !.enabled = en, !.activeNovelId = active,
             !.autopilotEnabled = ap, !.autopilotDelay = delayMs \div 1000]

\* shouldInterceptMessage without the two checks of the controller state.
shouldInterceptAlways(text) == ~isNovelContent(text)

\* shouldInterceptMessage(text)
shouldInterceptMessage(text) ==
  /\ isEnabled
  /\ activeNovelId # NoId
  /\ ~isNovelContent(text)

\* clearTimeout that cancels nothing.
clearTimeoutNothing(ts, handle) == ts

\* clearTimeout(handle) on the pending timers ts.
clearTimeout(ts, handle) == {t \in ts : t.id # handle}

\* The handle setTimeout returns: one that no pending timer has and that the
\* engine does not hold.
newHandle(ts) ==
  CHOOSE h \in 1..(Cardinality(ts) + 2) : h # autoPilotTimer /\ \A t \in ts : t.id # h

(***************************************************************************)
(* What a step records of the act-path invocation it ended.                *)
(***************************************************************************)
NoOut ==
  [kind |-> "none", via |-> "none", text |-> <<>>, chunk |-> NoChunk,
   dispatched |-> <<>>, report |-> "none"]

\* A pending timer: its handle and the seconds left, and, for the
\* properties, the delay it was armed with, the seconds since, and whether
\* arming it cancelled a timer that was still pending.
Timer(id, delay, replaced) ==
  [id |-> id, remaining |-> delay, delay |-> delay, elapsed |-> 0, replaced |-> replaced]

NoFire == [id |-> 0, remaining |-> 0, delay |-> 0, elapsed |-> 0, replaced |-> FALSE]

\* The pending timers a step removes without firing them (clearTimeout).
cancelled == {t \in timers : t # fired' /\ \A u \in timers' : u.id # t.id}

\* The exhaustion reports once the step has counted the one it made for the
\* active novel (a second report and any later one count alike).
noted ==
  IF out'.kind = "exhausted" /\ activeNovelId # NoId
  THEN [reported EXCEPT ![activeNovelId] = IF @ = 0 THEN 1 ELSE 2] ELSE reported

\* One call of the original send function.
Dispatch(text, ok) == [text |-> text, ok |-> ok]

(***************************************************************************)
(* InjectionEngine: the act-path.                                          *)
(*                                                                         *)
(* An await of a promise that is already resolved resumes in a microtask,  *)
(* before the host runs any other event; the only await of the act-path    *)
(* that lets other events in is the fetch of reloadNovelContent.  A step   *)
(* is therefore the code from one event up to that fetch or to the end.    *)
(* cx is the invocation: its text, the event that runs it, the novel       *)
(* object getNextChunk captured and the timers pending around it.          *)
(***************************************************************************)
Invocation(text, via, ts) ==
  [text |-> text, via |-> via, novelId |-> activeNovelId, ts |-> ts]

Outcome(cx, kind, chunk, dispatched, report) ==
  [kind |-> kind, via |-> cx.via, text |-> cx.text, chunk |-> chunk,
   dispatched |-> dispatched, report |-> report]

\* disable() without the clearTimeout of the armed timer.
disableKeepsTimer(ts) ==
  /\ isEnabled' = FALSE
  /\ activeNovelId' = NoId
  /\ timers' = ts
  /\ autoPilotTimer' = 0
  /\ settingsShared' = FALSE
  /\ settings' = engineSettings(settings, FALSE, NoId, isAutoPilotEnabled, autoPilotDelay)
  /\ storage' = setStorage(storage, "settings", settings')
  /\ UNCHANGED <<isAutoPilotEnabled, autoPilotDelay>>

\* disable(), with ts the timers pending when it is called.
disable(ts) ==
  /\ isEnabled' = FALSE
  /\ activeNovelId' = NoId
  /\ timers' = IF autoPilotTimer # 0 THEN clearTimeout(ts, autoPilotTimer) ELSE ts
  /\ autoPilotTimer' = 0
  /\ settingsShared' = FALSE
  /\ settings' = engineSettings(settings, FALSE, NoId, isAutoPilotEnabled, autoPilotDelay)
  /\ storage' = setStorage(storage, "settings", settings')
  /\ UNCHANGED <<isAutoPilotEnabled, autoPilotDelay>>

\* handleInterception when getNextChunk returned null: warn, disable, send
\* the original text.
reportExhausted(cx, rest, nv) ==
  /\ disable(cx.ts)
  /\ novels' = nv
  /\ inflight' = rest
  /\ out' = Outcome(cx, "exhausted", NoChunk, <<Dispatch(cx.text, TRUE)>>, "warning")

\* A catch block that reports the error and sends nothing.
fallBackSilent(cx, rest, nv, st, chunk, sent) ==
  /\ novels' = nv
  /\ storage' = st
  /\ inflight' = rest
  /\ timers' = cx.ts
  /\ out' = [kind |-> "fallback", via |-> cx.via, text |-> cx.text, chunk |-> chunk,
             dispatched |-> sent, report |-> "error"]
  /\ UNCHANGED <<isEnabled, activeNovelId, isAutoPilotEnabled, autoPilotDelay,
                 autoPilotTimer, settings,
                 settingsShared>>

\* The catch block of handleInterception: report the error, send the
\* original text.  sent: the calls of the send function made before the throw.
fallBack(cx, rest, nv, st, chunk, sent) ==
  /\ novels' = nv
  /\ storage' = st
  /\ inflight' = rest
  /\ timers' = cx.ts
  /\ out' = Outcome(cx, "fallback", chunk, sent \o <<Dispatch(cx.text, TRUE)>>, "error")
  /\ UNCHANGED <<isEnabled, activeNovelId, isAutoPilotEnabled, autoPilotDelay,
                 autoPilotTimer, settings,
                 settingsShared>>

\* sendNovelChunk from the call of the original send function on;
\* sendThrows: the host's send function throws on the formatted chunk.
dispatchChunk(cx, rest, nv, st, chunk, formattedContent) ==
  \E sendThrows \in BOOLEAN :
    IF sendThrows
    THEN fallBack(cx, rest, nv, st, chunk, <<Dispatch(formattedContent, FALSE)>>)
    ELSE /\ novels' = nv
         /\ storage' = st
         /\ inflight' = rest
         /\ timers' = cx.ts
         /\ out' = Outcome(cx, "chunk", chunk, <<Dispatch(formattedContent, TRUE)>>,
                           "none")
         /\ UNCHANGED <<isEnabled, activeNovelId, isAutoPilotEnabled, autoPilotDelay,
                        autoPilotTimer, settings,
                        settingsShared>>

\* sendNovelChunk(chunk, originalText), nv being the novel map updateProgress
\* left.
sendNovelChunk(cx, rest, nv, chunk) ==
  dispatchChunk(cx, rest, nv, saveNovelsData(storage, nv), chunk,
                formatChunkContent(settings, getNovelIn(nv, activeNovelId), chunk,
                                   cx.text))

\* getNextChunk once textProcessor.getNextChunk returned chunk, and the rest
\* of handleInterception.
afterChunk(cx, rest, nv, chunk) ==
  IF chunk = NoChunk THEN reportExhausted(cx, rest, nv)
  ELSE sendNovelChunk(cx, rest, updateProgress(nv, activeNovelId, chunk.endParagraph),
                      chunk)

\* getNextChunk from the call of textProcessor.getNextChunk on, then the
\* rest of handleInterception.  nv is the novel map once reloadNovelContent
\* returned.
produceAndSend(cx, rest, nv) ==
  afterChunk(cx, rest, nv,
             tpGetNextChunk(getNovelIn(nv, activeNovelId),
                            nv[cx.novelId].currentParagraph,
                            tpSettings.targetWordCount))

\* handleInterception(originalText) up to the fetch of reloadNovelContent,
\* or to its end when the paragraphs are in memory.
handleInterception(cx) ==
  LET novel == getNovel(activeNovelId)
  IN IF \/ activeNovelId = NoId
        \/ ~novel.exists
        \/ novel.currentParagraph >= novel.totalParagraphs
     THEN reportExhausted(cx, inflight, novels)
     ELSE IF ~novel.loaded
          THEN /\ Len(inflight) < MaxInflight
               /\ inflight' = Append(inflight, [text |-> cx.text, novelId |-> cx.novelId])
               /\ timers' = cx.ts
               /\ out' = NoOut
               /\ UNCHANGED <<novels, storage, isEnabled, activeNovelId,
                              isAutoPilotEnabled, autoPilotDelay, autoPilotTimer,
                              settings,
                              settingsShared>>
          ELSE produceAndSend(cx, inflight, novels)

\* manualInject(userInput)
manualInject(cx) ==
  IF ~isEnabled \/ activeNovelId = NoId
  THEN /\ out' = Outcome(cx, "rejected", NoChunk, <<>>, "warning")
       /\ timers' = cx.ts
       /\ UNCHANGED <<novels, storage, isEnabled, activeNovelId, isAutoPilotEnabled,
                      autoPilotDelay, autoPilotTimer, settings, inflight,
                      settingsShared>>
  ELSE handleInterception(cx)

(***************************************************************************)
(* The events.                                                             *)
(***************************************************************************)
\* The texts a caller sends: nothing, plain text, text that carries a
\* marker, and the string the last step delivered for one of these (the
\* host sending a delivered chunk again).
UserTexts == {<<>>, <<"h", "i">>, <<"h", "i">> \o MarkerZh, MarkerEn}

EchoTexts ==
  IF out.kind = "chunk" /\ out.text \in UserTexts THEN {out.dispatched[1].text} ELSE {}

\* window.sendTextareaMessage(text), the wrapper.
SendTextareaMessage ==
  \E text \in UserTexts \cup EchoTexts :
    LET cx == Invocation(text, "send", timers)
    IN /\ IF shouldInterceptMessage(text)
          THEN handleInterception(cx)
          ELSE /\ out' = Outcome(cx, "passthrough", NoChunk, <<Dispatch(text, TRUE)>>,
                                 "none")
               /\ UNCHANGED <<novels, storage, isEnabled, activeNovelId,
                              isAutoPilotEnabled, autoPilotDelay, autoPilotTimer,
                              settings, inflight, timers,
                              settingsShared>>
       /\ fired' = NoFire
       /\ UNCHANGED <<files, tpSettings>>
       /\ UNCHANGED harnessVars
       /\ UNCHANGED legacyVars
       /\ cleared' = cancelled
       /\ reported' = noted
       /\ UNCHANGED listVars

\* injectionEngine.manualInject(userInput) called by a button or a script.
ManualInject ==
  \E text \in {<<>>, <<"h", "i">>} :
    /\ manualInject(Invocation(text, "manual", timers))
    /\ fired' = NoFire
    /\ UNCHANGED <<files, tpSettings>>
    /\ UNCHANGED harnessVars
    /\ UNCHANGED legacyVars
    /\ cleared' = cancelled
    /\ reported' = noted
    /\ UNCHANGED listVars

\* The fetch of an invocation in flight returns: reloadNovelContent stores
\* the paragraphs (or throws), and the invocation runs to its end.
FetchReturns ==
  \E k \in 1..Len(inflight), ok \in BOOLEAN :
    LET cx == [text |-> inflight[k].text, via |-> "fetch",
               novelId |-> inflight[k].novelId, ts |-> timers]
        rest == SubSeq(inflight, 1, k - 1) \o SubSeq(inflight, k + 1, Len(inflight))
    IN /\ IF ok
          THEN produceAndSend(cx, rest, reloadNovelContent(novels, cx.novelId))
          ELSE fallBack(cx, rest, novels, storage, NoChunk, <<>>)
       /\ fired' = NoFire
       /\ UNCHANGED <<files, tpSettings>>
       /\ UNCHANGED harnessVars
       /\ UNCHANGED legacyVars
       /\ cleared' = cancelled
       /\ reported' = noted
       /\ UNCHANGED listVars

\* NovelListUI.selectNovel(novelId), the only caller of enable(novelId): a
\* novel the list shows is selected.
Enable ==
  \E novelId \in listNovels :
    /\ isEnabled' = TRUE
    /\ activeNovelId' = novelId
    /\ settingsShared' = FALSE
    /\ settings' = engineSettings(settings, TRUE, novelId, isAutoPilotEnabled,
                                  autoPilotDelay)
    /\ storage' = setStorage(storage, "settings", settings')
    /\ out' = NoOut
    /\ fired' = NoFire
    /\ UNCHANGED <<novels, files, isAutoPilotEnabled, autoPilotDelay, autoPilotTimer,
                   tpSettings, timers, inflight>>
    /\ UNCHANGED harnessVars
    /\ UNCHANGED legacyVars
    /\ cleared' = cancelled
    /\ reported' = noted
    /\ refresh(novels, novelId)
    /\ UNCHANGED <<deleting, uiSettings, panelShared>>

\* disable()
Disable ==
  /\ disable(timers)
  /\ out' = NoOut
  /\ fired' = NoFire
  /\ UNCHANGED <<novels, files, tpSettings, inflight>>
  /\ UNCHANGED harnessVars
  /\ UNCHANGED legacyVars
  /\ cleared' = cancelled
  /\ reported' = noted
  /\ UNCHANGED listVars

\* NovelListUI.resetProgress(novelId), confirmed by the user:
\* fileManager.resetProgress(novelId) is updateProgress(novelId, 0).
ResetProgress ==
  \E novelId \in listNovels :
    /\ IF getNovel(novelId).exists
       THEN /\ novels' = updateProgress(novels, novelId, 0)
            /\ storage' = saveNovelsData(storage, novels')
            /\ reported' = [reported EXCEPT ![novelId] = 0]
            /\ refresh(novels', activeNovelId)
       ELSE UNCHANGED <<novels, storage, reported, listNovels, listActiveNovelId>>
    /\ out' = NoOut
    /\ fired' = NoFire
    /\ cleared' = {}
    /\ UNCHANGED <<deleting, uiSettings, panelShared>>
    /\ UNCHANGED <<files, isEnabled, activeNovelId, isAutoPilotEnabled, autoPilotDelay,
                   autoPilotTimer, settings, tpSettings, timers, inflight,
                   settingsShared>>
    /\ UNCHANGED harnessVars
    /\ UNCHANGED legacyVars

\* NovelListUI.deleteNovel(novelId), confirmed by the user, up to the delete
\* request of fileManager.deleteNovel: the controller is disabled when the
\* list holds the novel as the active one.  One request per novel is in
\* flight at a time.
DeleteNovel ==
  \E novelId \in listNovels \ deleting :
    /\ IF novelId = listActiveNovelId
       THEN disable(timers)
       ELSE UNCHANGED <<storage, isEnabled, activeNovelId, isAutoPilotEnabled,
                        autoPilotDelay, autoPilotTimer, settings, timers,
                        settingsShared>>
    /\ deleting' = IF getNovel(novelId).exists THEN deleting \cup {novelId} ELSE deleting
    /\ out' = NoOut
    /\ fired' = NoFire
    /\ cleared' = cancelled
    /\ UNCHANGED <<novels, files, tpSettings, inflight, reported, listNovels,
                   listActiveNovelId, uiSettings, panelShared>>
    /\ UNCHANGED harnessVars
    /\ UNCHANGED legacyVars

\* The delete request returns: the novel is removed from the store, the
\* metadata are saved and the list is refreshed; when the request threw,
\* the error is reported and the novel stays.
DeleteReturns ==
  \E novelId \in deleting, threw \in BOOLEAN :
    /\ deleting' = deleting \ {novelId}
    /\ IF threw
       THEN UNCHANGED <<novels, storage, listNovels, listActiveNovelId>>
       ELSE /\ novels' = [novels EXCEPT ![novelId].exists = FALSE]
            /\ storage' = saveNovelsData(storage, novels')
            /\ refresh(novels', activeNovelId)
    /\ out' = NoOut
    /\ fired' = NoFire
    /\ cleared' = {}
    /\ UNCHANGED <<files, isEnabled, activeNovelId, isAutoPilotEnabled, autoPilotDelay,
                   autoPilotTimer, settings, tpSettings, timers, inflight, reported,
                   settingsShared, uiSettings, panelShared>>
    /\ UNCHANGED harnessVars
    /\ UNCHANGED legacyVars

\* setAutoPilot(enabled, delay)
SetAutoPilot ==
  \E enabled \in BOOLEAN, delay \in 1..MaxDelay :
    /\ isAutoPilotEnabled' = enabled
    /\ autoPilotDelay' = delay * 1000
    /\ settingsShared' = FALSE
    /\ settings' = engineSettings(settings, isEnabled, activeNovelId, enabled,
                                  delay * 1000)
    /\ storage' = setStorage(storage, "settings", settings')
    /\ out' = NoOut
    /\ fired' = NoFire
    /\ UNCHANGED <<novels, files, isEnabled, activeNovelId, autoPilotTimer,
                   tpSettings, timers, inflight>>
    /\ UNCHANGED harnessVars
    /\ UNCHANGED legacyVars
    /\ cleared' = cancelled
    /\ reported' = noted
    /\ UNCHANGED listVars

(***************************************************************************)
(* The novel store called directly (core/fileManager.js), and the upload   *)
(* button of the settings panel.  An operation that waits for a request    *)
(* touches nothing but the server's files before the request returns, so   *)
(* it is one step, taken when its last request returns.                    *)
(***************************************************************************)
\* 50 * 1024 * 1024, the size limit of uploadNovel.
MaxFileSize == 52428800

\* What a call of a store operation did: it returned, or it threw.
StoreCall(op, threw) ==
  [kind |-> "store", via |-> op, text |-> <<>>, chunk |-> NoChunk,
   dispatched |-> <<>>, report |-> IF threw THEN "error" ELSE "none"]

\* What a store operation leaves alone.
storeFrame ==
  /\ fired' = NoFire
  /\ cleared' = {}
  /\ UNCHANGED <<files, isEnabled, activeNovelId, isAutoPilotEnabled, autoPilotDelay,
                 autoPilotTimer, settings, tpSettings, timers, inflight,
                 settingsShared, deleting, uiSettings, panelShared>>
  /\ UNCHANGED harnessVars
  /\ UNCHANGED legacyVars

\* uploadNovel registering the novel before it reads the file back.
UploadNovelKeepsPartial ==
  \E novelId \in {id \in NovelIds : novels[id] = NoNovel},
     file \in [txt : BOOLEAN, size : {1, MaxFileSize + 1}],
     uploaded \in BOOLEAN, read \in BOOLEAN :
    /\ IF ~file.txt \/ file.size > MaxFileSize \/ ~uploaded
       THEN /\ out' = StoreCall("uploadNovel", TRUE)
            /\ UNCHANGED <<novels, storage, listNovels, listActiveNovelId>>
       ELSE /\ novels' = [novels EXCEPT ![novelId] =
                            novelData(novelId, IF read THEN parseParagraphs(files[novelId])
                                               ELSE <<>>)]
            /\ storage' = saveNovelsData(storage, novels')
            /\ IF read THEN refresh(novels', activeNovelId)
               ELSE UNCHANGED <<listNovels, listActiveNovelId>>
            /\ out' = StoreCall("uploadNovel", ~read)
    /\ UNCHANGED reported
    /\ storeFrame

\* SettingsUI.uploadNovel(file): fileManager.uploadNovel(file) under an id
\* that was never used, then the refresh of the novel list; an error is
\* reported.  uploaded, read: the upload request and the request reading
\* the file back succeed.
UploadNovel ==
  \E novelId \in {id \in NovelIds : novels[id] = NoNovel},
     file \in [txt : BOOLEAN, size : {1, MaxFileSize + 1}],
     uploaded \in BOOLEAN, read \in BOOLEAN :
    /\ IF ~file.txt \/ file.size > MaxFileSize \/ ~uploaded \/ ~read
       THEN /\ out' = StoreCall("uploadNovel", TRUE)
            /\ UNCHANGED <<novels, storage, listNovels, listActiveNovelId>>
       ELSE /\ novels' = [novels EXCEPT ![novelId] =
                            novelData(novelId, parseParagraphs(files[novelId]))]
            /\ storage' = saveNovelsData(storage, novels')
            /\ refresh(novels', activeNovelId)
            /\ out' = StoreCall("uploadNovel", FALSE)
    /\ UNCHANGED reported
    /\ storeFrame

\* fileManager.updateProgress(novelId, paragraphIndex)
UpdateProgress ==
  \E novelId \in NovelIds, paragraphIndex \in {-1, 0, 1, MaxParas + 1} :
    /\ IF ~getNovel(novelId).exists
       THEN /\ out' = StoreCall("updateProgress", TRUE)
            /\ UNCHANGED <<novels, storage>>
       ELSE /\ novels' = updateProgress(novels, novelId, paragraphIndex)
            /\ storage' = saveNovelsData(storage, novels')
            /\ out' = StoreCall("updateProgress", FALSE)
    /\ UNCHANGED <<reported, listNovels, listActiveNovelId>>
    /\ storeFrame

\* fileManager.resetProgress(novelId)
StoreResetProgress ==
  \E novelId \in NovelIds :
    /\ IF ~getNovel(novelId).exists
       THEN /\ out' = StoreCall("resetProgress", TRUE)
            /\ UNCHANGED <<novels, storage, reported>>
       ELSE /\ novels' = updateProgress(novels, novelId, 0)
            /\ storage' = saveNovelsData(storage, novels')
            /\ reported' = [reported EXCEPT ![novelId] = 0]
            /\ out' = StoreCall("resetProgress", FALSE)
    /\ UNCHANGED <<listNovels, listActiveNovelId>>
    /\ storeFrame

\* fileManager.deleteNovel(novelId); rejected: the delete request throws.
StoreDeleteNovel ==
  \E novelId \in NovelIds :
    /\ IF ~getNovel(novelId).exists
       THEN /\ out' = StoreCall("deleteNovel", TRUE)
            /\ UNCHANGED <<novels, storage>>
       ELSE \E rejected \in BOOLEAN :
              IF rejected
              THEN /\ out' = StoreCall("deleteNovel", TRUE)
                   /\ UNCHANGED <<novels, storage>>
              ELSE /\ novels' = [novels EXCEPT ![novelId].exists = FALSE]
                   /\ storage' = saveNovelsData(storage, novels')
                   /\ out' = StoreCall("deleteNovel", FALSE)
    /\ UNCHANGED <<reported, listNovels, listActiveNovelId>>
    /\ storeFrame

\* fileManager.reloadNovelContent(novelId); read: the request reading the
\* file succeeds.
ReloadNovelContent ==
  \E novelId \in NovelIds :
    /\ IF ~getNovel(novelId).exists
       THEN /\ out' = StoreCall("reloadNovelContent", TRUE)
            /\ UNCHANGED novels
       ELSE IF getNovel(novelId).loaded
            THEN /\ out' = StoreCall("reloadNovelContent", FALSE)
                 /\ UNCHANGED novels
            ELSE \E read \in BOOLEAN :
                   IF read
                   THEN /\ novels' = reloadNovelContent(novels, novelId)
                        /\ out' = StoreCall("reloadNovelContent", FALSE)
                   ELSE /\ out' = StoreCall("reloadNovelContent", TRUE)
                        /\ UNCHANGED novels
    /\ UNCHANGED <<storage, reported, listNovels, listActiveNovelId>>
    /\ storeFrame

(***************************************************************************)
(* The settings panel (ui/settings.js).  SettingsUI.settings is the object *)
(* start-up read from storage, until clearAllData() replaces it: the text  *)
(* processor holds the same object, and so does the controller until its   *)
(* first saveSettings() replaces it by a new one.                          *)
(***************************************************************************)
WordCountDefault == 500
WordCountFloor == 100
WordCountCeiling == 5000
DelayDefault == 3
DelayFloor == 1
DelayCeiling == 300

\* The controller's settings object once the panel changed its own to us.
seenByEngine(us) == IF settingsShared /\ panelShared THEN us ELSE settings

\* The text processor's settings object once the panel changed its own to us.
seenByProcessor(us) == IF panelShared THEN us ELSE tpSettings

\* A handler of the panel that changes its object to us and saves it.
panelSaves(us) ==
  /\ uiSettings' = us
  /\ tpSettings' = seenByProcessor(us)
  /\ settings' = seenByEngine(us)
  /\ storage' = setStorage(storage, "settings", us)
  /\ UNCHANGED <<isEnabled, activeNovelId, isAutoPilotEnabled, autoPilotDelay,
                 autoPilotTimer, timers, settingsShared>>

\* A handler of the panel that changes its object to us, calls
\* setAutoPilot(enabled, delay) and then saves its object.
panelSetsAutoPilot(us, enabled, delay) ==
  /\ uiSettings' = us
  /\ tpSettings' = seenByProcessor(us)
  /\ isAutoPilotEnabled' = enabled
  /\ autoPilotDelay' = delay * 1000
  /\ settingsShared' = FALSE
  /\ settings' = engineSettings(seenByEngine(us), isEnabled, activeNovelId, enabled,
                                delay * 1000)
  /\ storage' = setStorage(storage, "settings", us)
  /\ UNCHANGED <<isEnabled, activeNovelId, autoPilotTimer, timers>>

\* What no handler of the panel changes.
panelFrame ==
  /\ out' = NoOut
  /\ fired' = NoFire
  /\ cleared' = cancelled
  /\ UNCHANGED <<novels, files, inflight, reported, listNovels, listActiveNovelId,
                 deleting, panelShared>>
  /\ UNCHANGED harnessVars
  /\ UNCHANGED legacyVars

\* clearAllData(), confirmed by the user: the controller is disabled, both
\* keys of the storage are emptied, fileManager.init() reads the emptied
\* key and adds nothing to its map, which it does not clear; the panel takes
\* a new settings object and the list is refreshed.
ClearAllData ==
  /\ isEnabled' = FALSE
  /\ activeNovelId' = NoId
  /\ timers' = IF autoPilotTimer # 0 THEN clearTimeout(timers, autoPilotTimer) ELSE timers
  /\ autoPilotTimer' = 0
  /\ settingsShared' = FALSE
  /\ settings' = engineSettings(settings, FALSE, NoId, isAutoPilotEnabled, autoPilotDelay)
  /\ storage' = [settings |-> NoSettings, novels |-> <<>>]
  /\ uiSettings' = NoSettings
  /\ panelShared' = FALSE
  /\ refresh(novels, NoId)
  /\ out' = NoOut
  /\ fired' = NoFire
  /\ cleared' = cancelled
  /\ UNCHANGED <<novels, files, isAutoPilotEnabled, autoPilotDelay, tpSettings, inflight,
                 reported, deleting>>
  /\ UNCHANGED harnessVars
  /\ UNCHANGED legacyVars

\* The enable switch of the panel.
EnableToggle ==
  \E checked \in BOOLEAN :
    /\ IF checked
       THEN panelSaves([uiSettings EXCEPT !.enabled = TRUE])
       ELSE /\ uiSettings' = [uiSettings EXCEPT !.enabled = FALSE]
            /\ tpSettings' = seenByProcessor(uiSettings')
            /\ disable(timers)
    /\ panelFrame

\* The target word count field of the panel; value 0: no number was typed.
TargetWordCountChange ==
  \E typed \in {0, WordCountFloor - 1, WordCountFloor + 1, WordCountCeiling + 1} :
    /\ panelSaves([uiSettings EXCEPT !.targetWordCount =
                     Max(WordCountFloor,
                         Min(WordCountCeiling,
                             IF typed = 0 THEN WordCountDefault ELSE typed))])
    /\ panelFrame

\* The collapse switch of the panel.
CollapseToggle ==
  \E checked \in BOOLEAN :
    /\ panelSaves([uiSettings EXCEPT !.collapseContent = checked])
    /\ panelFrame

\* The autopilot switch of the panel; a delay the panel never set is
\* undefined, for which setAutoPilot takes its default of 3 seconds.
AutopilotToggle ==
  \E checked \in BOOLEAN :
    /\ panelSetsAutoPilot([uiSettings EXCEPT !.autopilotEnabled = checked], checked,
                          IF uiSettings.autopilotDelay = 0 THEN 3
                          ELSE uiSettings.autopilotDelay)
    /\ panelFrame

\* The autopilot delay field of the panel; value 0: no number was typed.
AutopilotDelayChange ==
  \E typed \in {0, DelayFloor + 1, DelayCeiling + 1} :
    LET delay == Max(DelayFloor,
                     Min(DelayCeiling, IF typed = 0 THEN DelayDefault ELSE typed))
    IN /\ panelSetsAutoPilot([uiSettings EXCEPT !.autopilotDelay = delay],
                             uiSettings.autopilotEnabled, delay)
       /\ panelFrame

\* onAIMessageReceived() without the clearTimeout of the timer armed before.
OnAIMessageReceivedNoCancel ==
  /\ IF ~isAutoPilotEnabled \/ ~isEnabled \/ activeNovelId = NoId
     THEN UNCHANGED <<timers, autoPilotTimer>>
     ELSE LET h == newHandle(timers)
          IN /\ timers' = timers \cup {Timer(h, autoPilotDelay \div 1000, timers # {})}
             /\ autoPilotTimer' = h
  /\ out' = NoOut
  /\ fired' = NoFire
  /\ UNCHANGED <<novels, files, storage, isEnabled, activeNovelId, isAutoPilotEnabled,
                 autoPilotDelay, settings, tpSettings, inflight,
                 settingsShared>>
  /\ UNCHANGED harnessVars
  /\ UNCHANGED legacyVars
  /\ cleared' = cancelled
  /\ reported' = noted
  /\ UNCHANGED listVars

\* onAIMessageReceived(): the turn-complete signal.
OnAIMessageReceived ==
  /\ IF ~isAutoPilotEnabled \/ ~isEnabled \/ activeNovelId = NoId
     THEN UNCHANGED <<timers, autoPilotTimer>>
     ELSE LET ts == IF autoPilotTimer # 0 THEN clearTimeout(timers, autoPilotTimer)
                    ELSE timers
              h == newHandle(ts)
          IN /\ timers' = ts \cup {Timer(h, autoPilotDelay \div 1000, timers # {})}
             /\ autoPilotTimer' = h
  /\ out' = NoOut
  /\ fired' = NoFire
  /\ UNCHANGED <<novels, files, storage, isEnabled, activeNovelId, isAutoPilotEnabled,
                 autoPilotDelay, settings, tpSettings, inflight,
                 settingsShared>>
  /\ UNCHANGED harnessVars
  /\ UNCHANGED legacyVars
  /\ cleared' = cancelled
  /\ reported' = noted
  /\ UNCHANGED listVars

\* A second of time passes; a timer that is due fires first.
Tick ==
  /\ timers # {}
  /\ \A t \in timers : t.remaining > 0
  /\ timers' = {[t EXCEPT !.remaining = @ - 1, !.elapsed = @ + 1] : t \in timers}
  /\ out' = NoOut
  /\ fired' = NoFire
  /\ UNCHANGED <<novels, files, storage, isEnabled, activeNovelId, isAutoPilotEnabled,
                 autoPilotDelay, autoPilotTimer, settings, tpSettings, inflight,
                 settingsShared>>
  /\ UNCHANGED harnessVars
  /\ UNCHANGED legacyVars
  /\ cleared' = cancelled
  /\ reported' = noted
  /\ UNCHANGED listVars

\* The timer callback without the guard of triggerAutoPilotInjection.
TimerFiresUnguarded ==
  \E t \in timers :
    /\ t.remaining = 0
    /\ fired' = t
    /\ manualInject(Invocation(<<>>, "timer", timers \ {t}))
    /\ UNCHANGED <<files, tpSettings>>
    /\ UNCHANGED harnessVars
    /\ UNCHANGED legacyVars
    /\ cleared' = cancelled
    /\ reported' = noted
    /\ UNCHANGED listVars

\* A pending timer fires: triggerAutoPilotInjection().
TimerFires ==
  \E t \in timers :
    LET ts == timers \ {t}
    IN /\ t.remaining = 0
       /\ fired' = t
       /\ IF ~isAutoPilotEnabled \/ ~isEnabled
          THEN /\ timers' = ts
               /\ out' = NoOut
               /\ UNCHANGED <<novels, storage, isEnabled, activeNovelId,
                              isAutoPilotEnabled, autoPilotDelay, autoPilotTimer,
                              settings, inflight,
                              settingsShared>>
          ELSE manualInject(Invocation(<<>>, "timer", ts))
       /\ UNCHANGED <<files, tpSettings>>
       /\ UNCHANGED harnessVars
       /\ UNCHANGED legacyVars
       /\ cleared' = cancelled
       /\ reported' = noted
       /\ UNCHANGED listVars

(***************************************************************************)
(* The extension after start-up (index.js: fileManager.init(), then        *)
(* injectionEngine.init()) with two novels uploaded earlier: the store     *)
(* holds their metadata without paragraphs, the controller is disabled.    *)
(***************************************************************************)
\* The prefix template of the model: every placeholder once.
PrefixTemplate ==
  PhTitle \o <<" ">> \o PhChapter \o <<" ">> \o PhStartPara \o <<"-">> \o PhEndPara
    \o <<" ">> \o PhProgress

\* The novel object fileManager.init() restores from the stored metadata.
storedNovel(id, paragraphs) ==
  [novelData(id, paragraphs) EXCEPT !.loaded = FALSE, !.paragraphs = <<>>]

\* loadSettings()
loadSettings(st) ==
  /\ settings = getStorage(st, "settings")
  /\ isEnabled = settings.enabled
  /\ activeNovelId = settings.activeNovelId
  /\ isAutoPilotEnabled = settings.autopilotEnabled
  /\ autoPilotDelay = (IF settings.autopilotDelay = 0 THEN 3 ELSE settings.autopilotDelay)
                        * 1000

IdleHarness ==
  /\ cCursor = 0
  /\ cStart = 0
  /\ cChunks = <<>>
  /\ cLast = [s |-> -1, chunk |-> NoChunk]

\* The interception over the WebSocket is not in use: the box is not
\* checked and the backend holds no novel.
IdleLegacy ==
  /\ pluginEnabled = FALSE
  /\ chunkSizeInput = 0
  /\ novelParagraphs = <<>>
  /\ currentIndex = -1
  /\ wsRequests = <<>>
  /\ wsResponses = <<>>
  /\ wsSent = <<>>

\* The second novel of the store.
OtherNovel == <<ParaHeading, ParaSentence>>

\* Start-up of the extension with the settings and the metadata of two
\* novels in storage.
StartUpEngine(p1, b, fmt) ==
  LET content == [id \in NovelIds |-> IF id = "n1" THEN p1 ELSE OtherNovel]
      saved == [NoSettings EXCEPT !.targetWordCount = b,
                                  !.collapseContent = fmt,
                                  !.prefixTemplate = IF fmt THEN PrefixTemplate ELSE <<>>]
  IN /\ files = [id \in NovelIds |-> Join(content[id], BlankLine)]
     /\ novels = [id \in NovelIds |-> storedNovel(id, content[id])]
     /\ storage = [settings |-> saved, novels |-> novelsMetadata(novels)]
     /\ loadSettings(storage)
     /\ tpSettings = settings
     /\ autoPilotTimer = 0
     /\ timers = {}
     /\ inflight = <<>>
     /\ out = NoOut
     /\ fired = NoFire
     /\ cleared = {}
     /\ reported = [id \in NovelIds |-> 0]
     /\ refreshed(novels, activeNovelId)
     /\ deleting = {}
     /\ uiSettings = settings
     /\ panelShared = TRUE
     /\ settingsShared = TRUE
     /\ IdleHarness

StartUp(p1, b, fmt) == StartUpEngine(p1, b, fmt) /\ IdleLegacy

\* The first novel of the store is empty, has one paragraph or has MaxParas.
FirstNovel(n) == [i \in 1..n |-> IF i % 2 = 1 THEN ParaWord ELSE ParaSentence]

Init ==
  \E n \in {0, 1, MaxParas}, b \in {0, 2}, fmt \in BOOLEAN :
    StartUp(FirstNovel(n), b, fmt)

\* The act-path with autopilot left off.
Next ==
  \/ SendTextareaMessage
  \/ ManualInject
  \/ FetchReturns
  \/ Enable
  \/ Disable

Spec == Init /\ [][Next]_vars

\* The act-path together with the buttons of the novel list.
NovelListNext ==
  \/ SendTextareaMessage
  \/ ManualInject
  \/ FetchReturns
  \/ Enable
  \/ Disable
  \/ ResetProgress

NovelListSpec == Init /\ [][NovelListNext]_vars

\* Selecting and deleting novels uploaded in this session, with the
\* act-path.
NovelDeleteNext ==
  \/ SendTextareaMessage
  \/ ManualInject
  \/ Enable
  \/ Disable
  \/ DeleteNovel
  \/ DeleteReturns

\* Autopilot: the novels were uploaded in this session (their paragraphs are
\* in memory, so no act-path invocation waits for a fetch).
AutoPilotInit ==
  /\ \E p1 \in {<<ParaSentence>>, <<ParaWord, ParaSentence, ParaWord>>}, b \in {0, 2} :
       LET content == [id \in NovelIds |-> IF id = "n1" THEN p1 ELSE OtherNovel]
       IN /\ files = [id \in NovelIds |-> Join(content[id], BlankLine)]
          /\ novels = [id \in NovelIds |-> novelData(id, content[id])]
          /\ storage = [settings |-> [NoSettings EXCEPT !.targetWordCount = b],
                        novels |-> novelsMetadata(novels)]
  /\ loadSettings(storage)
  /\ tpSettings = settings
  /\ autoPilotTimer = 0
  /\ timers = {}
  /\ inflight = <<>>
  /\ out = NoOut
  /\ fired = NoFire
  /\ cleared = {}
  /\ reported = [id \in NovelIds |-> 0]
  /\ refreshed(novels, activeNovelId)
  /\ deleting = {}
  /\ uiSettings = settings
  /\ panelShared = TRUE
  /\ settingsShared = TRUE
  /\ IdleHarness
  /\ IdleLegacy

AutoPilotNext ==
  \/ Enable
  \/ Disable
  \/ SetAutoPilot
  \/ OnAIMessageReceived
  \/ Tick
  \/ TimerFires

AutoPilotSpec == AutoPilotInit /\ [][AutoPilotNext]_vars

NovelDeleteSpec == AutoPilotInit /\ [][NovelDeleteNext]_vars

\* The controller's settings and the settings panel.
SettingsNext ==
  \/ Enable
  \/ Disable
  \/ SetAutoPilot
  \/ EnableToggle
  \/ TargetWordCountChange
  \/ CollapseToggle
  \/ AutopilotToggle
  \/ AutopilotDelayChange

SettingsSpec == AutoPilotInit /\ [][SettingsNext]_vars

\* The writers of the stored cursors, with the act-path.
PersistNext ==
  \/ SendTextareaMessage
  \/ ManualInject
  \/ Enable
  \/ ResetProgress
  \/ ClearAllData

PersistSpec == AutoPilotInit /\ [][PersistNext]_vars

\* Start-up with the metadata of the first novel in storage; the second
\* novel is a file that was not uploaded yet, empty or of two paragraphs.
FileStoreInit ==
  /\ \E n \in {1, MaxParas}, f2 \in {<<>>, Join(OtherNovel, BlankLine)}, b \in {2} :
       /\ files = [id \in NovelIds |->
                     IF id = "n1" THEN Join(FirstNovel(n), BlankLine) ELSE f2]
       /\ novels = [id \in NovelIds |->
                      IF id = "n1" THEN storedNovel(id, FirstNovel(n)) ELSE NoNovel]
       /\ storage = [settings |-> [NoSettings EXCEPT !.targetWordCount = b],
                     novels |-> novelsMetadata(novels)]
  /\ loadSettings(storage)
  /\ tpSettings = settings
  /\ autoPilotTimer = 0
  /\ timers = {}
  /\ inflight = <<>>
  /\ out = NoOut
  /\ fired = NoFire
  /\ cleared = {}
  /\ reported = [id \in NovelIds |-> 0]
  /\ refreshed(novels, activeNovelId)
  /\ deleting = {}
  /\ uiSettings = settings
  /\ panelShared = TRUE
  /\ settingsShared = TRUE
  /\ IdleHarness
  /\ IdleLegacy

\* The operations of the novel store, with the act-path.
FileStoreNext ==
  \/ UploadNovel
  \/ UpdateProgress
  \/ StoreResetProgress
  \/ StoreDeleteNovel
  \/ ReloadNovelContent
  \/ ManualInject
  \/ FetchReturns
  \/ Enable

FileStoreSpec == FileStoreInit /\ [][FileStoreNext]_vars

(***************************************************************************)
(* The chunker harness: getNextChunk called again and again, each          *)
(* endParagraph fed back as the next cursor.                               *)
(***************************************************************************)
NoCall == [s |-> -1, chunk |-> NoChunk]

\* The harness before its first call: paragraphs ps, cursor s, stored
\* target word count b.
ChunkerStart(ps, s, b) ==
  /\ novels = [id \in {"n1"} |-> novelData(id, ps)]
  /\ files = [id \in {"n1"} |-> Join(ps, BlankLine)]
  /\ storage = [settings |-> [NoSettings EXCEPT !.targetWordCount = b],
                novels |-> novelsMetadata(novels)]
  /\ cCursor = s
  /\ cStart = s
  /\ loadSettings(storage)
  /\ tpSettings = settings
  /\ cChunks = <<>>
  /\ cLast = NoCall
  /\ IdleLegacy
  /\ autoPilotTimer = 0
  /\ timers = {}
  /\ inflight = <<>>
  /\ out = NoOut
  /\ fired = NoFire
  /\ cleared = {}
  /\ reported = [id \in NovelIds |-> 0]
  /\ refreshed(novels, activeNovelId)
  /\ deleting = {}
  /\ uiSettings = settings
  /\ panelShared = TRUE
  /\ settingsShared = TRUE

ChunkerInit ==
  \E ps \in SeqsUpTo(ParaLib, MaxParas), s \in 0..(MaxParas + 1), b \in 0..MaxBudget :
    ChunkerStart(ps, s, b)

\* Paragraphs for the chapter label: a heading on the second line, behind
\* white space (U+7B2C U+4E8C U+8282), and a heading of 51 characters.
ParaSecondLine == <<"a", "\n", " ", "di", "er", "jie">>
ParaLongHeading == ParaHeading \o [i \in 1..(ChapterLabelMax - 2) |-> "zhong"]

ChapterLib == {ParaWord, ParaHeading, ParaSecondLine, ParaLongHeading}

\* A novel of more paragraphs than a chapter is assumed to have.
ManyParagraphs == [i \in 1..(ParagraphsPerChapter + 1) |-> ParaWord]

\* The harness over novels with headings, and over the cursors around the
\* assumed chapter length.
ChapterInit ==
  \/ \E ps \in SeqsUpTo(ChapterLib, MaxParas), s \in 0..MaxParas, b \in 0..MaxBudget :
       ChunkerStart(ps, s, b)
  \/ \E s \in {ParagraphsPerChapter - 1, ParagraphsPerChapter}, b \in 0..MaxBudget :
       ChunkerStart(ManyParagraphs, s, b)


\* A call that returns a chunk.
ChunkerDeliver ==
  LET chunk == tpGetNextChunk(getNovel("n1"), cCursor, tpSettings.targetWordCount)
  IN /\ cLast.chunk # NoChunk \/ cLast = NoCall
     /\ chunk # NoChunk
     /\ cChunks' = Append(cChunks, chunk)
     /\ cLast' = [s |-> cCursor, chunk |-> chunk]
     /\ cCursor' = chunk.endParagraph
     /\ UNCHANGED <<novels, files, tpSettings, cStart>>
     /\ UNCHANGED engineVars
     /\ UNCHANGED legacyVars
     /\ UNCHANGED listVars

\* The call that returns null.
ChunkerExhaust ==
  LET chunk == tpGetNextChunk(getNovel("n1"), cCursor, tpSettings.targetWordCount)
  IN /\ cLast.chunk # NoChunk \/ cLast = NoCall
     /\ chunk = NoChunk
     /\ cLast' = [s |-> cCursor, chunk |-> NoChunk]
     /\ UNCHANGED <<novels, files, tpSettings, cStart, cChunks, cCursor>>
     /\ UNCHANGED engineVars
     /\ UNCHANGED legacyVars
     /\ UNCHANGED listVars

ChunkerNext == ChunkerDeliver \/ ChunkerExhaust

ChunkerSpec == ChunkerInit /\ [][ChunkerNext]_vars

ChapterSpec == ChapterInit /\ [][ChunkerNext]_vars

cParagraphs == novels["n1"].paragraphs

(***************************************************************************)
(* Properties of the chunker (ChunkerSpec).                                *)
(***************************************************************************)
\* C3: from cursor 0 to the null result, the ranges of the chunks partition
\* [0, length): the first starts at 0, each starts where the one before it
\* ended, the last ends at length, and each content is its paragraphs joined
\* by a blank line.
C3_ChunksPartition ==
  (cStart = 0 /\ cLast # NoCall /\ cLast.chunk = NoChunk) =>
    /\ (cChunks = <<>>) <=> (Len(cParagraphs) = 0)
    /\ cChunks # <<>> =>
         /\ cChunks[1].startParagraph = 0
         /\ cChunks[Len(cChunks)].endParagraph = Len(cParagraphs)
    /\ \A n \in 1..Len(cChunks) :
         /\ cChunks[n].startParagraph < cChunks[n].endParagraph
         /\ n < Len(cChunks) => cChunks[n].endParagraph = cChunks[n + 1].startParagraph
         /\ cChunks[n].content =
              Join(SubSeq(cParagraphs, cChunks[n].startParagraph + 1,
                          cChunks[n].endParagraph), BlankLine)

\* A run from cursor 0 over a full-length novel that ended after more than
\* one chunk.
C3_Witness ==
  /\ cStart = 0
  /\ cLast # NoCall
  /\ cLast.chunk = NoChunk
  /\ Len(cChunks) >= 2
  /\ Len(cParagraphs) >= 3

\* C4: getNextChunk returns no chunk exactly when the cursor is at or past
\* the end of the paragraph list; otherwise it returns a chunk that starts at
\* the cursor, is not empty and ends within the list, even when the first
\* paragraph alone is over the budget.
C4_ChunkIffBeforeEnd ==
  cLast # NoCall =>
    /\ (cLast.chunk = NoChunk) <=> (cLast.s >= Len(cParagraphs))
    /\ cLast.chunk # NoChunk =>
         /\ cLast.chunk.startParagraph = cLast.s
         /\ cLast.chunk.endParagraph > cLast.chunk.startParagraph
         /\ cLast.chunk.endParagraph <= Len(cParagraphs)

\* A chunk was returned although its first paragraph alone is over the budget.
C4_Witness ==
  /\ cLast.chunk # NoChunk
  /\ tpSettings.targetWordCount > 0
  /\ countWords(cParagraphs[cLast.s + 1]) > tpSettings.targetWordCount
  /\ cLast.s > 0

(***************************************************************************)
(* Properties of the act-path (Spec).                                      *)
(***************************************************************************)
\* The cursors of all novels.
cursors == [id \in DOMAIN novels |-> novels[id].currentParagraph]

\* The step ran an act-path invocation from its call to its end.
CalledAndEnded == out'.kind # "none" /\ out'.via # "fetch"

\* C1: whenever an invocation produced a chunk, the cursor of the active
\* novel is the chunk's endParagraph once the invocation has ended.
C1_CursorAtChunkEnd ==
  out.chunk # NoChunk =>
    getNovel(activeNovelId).currentParagraph = out.chunk.endParagraph

\* C2: once a delivered chunk ended at the last paragraph of the active
\* novel, the next invocation produces no chunk: it reports exhaustion, the
\* controller is disabled and the original text alone is sent.
C2_ExhaustedAfterLastChunk ==
  [][(/\ out.kind = "chunk"
      /\ out.chunk.endParagraph = getNovel(activeNovelId).totalParagraphs
      /\ inflight = <<>>
      /\ out'.kind \in {"chunk", "fallback", "exhausted"})
     => (/\ out'.kind = "exhausted"
         /\ out'.chunk = NoChunk
         /\ ~isEnabled'
         /\ out'.dispatched = <<Dispatch(out'.text, TRUE)>>)]_vars

\* C5 as claimed: with the controller disabled or without an active novel,
\* an invocation through the wrapper or through manualInject sends exactly
\* the original text, produces no chunk and moves no cursor.
C5_DisabledSendsOriginal ==
  [][((~isEnabled \/ activeNovelId = NoId) /\ CalledAndEnded)
     => (/\ out'.dispatched = <<Dispatch(out'.text, TRUE)>>
         /\ out'.chunk = NoChunk
         /\ cursors' = cursors)]_vars

\* C5 as amended: with the controller disabled or without an active novel,
\* no invocation produces a chunk or moves a cursor; the wrapper sends
\* exactly the original text, and manualInject sends nothing and warns.
C5_DisabledNoChunk ==
  [][((~isEnabled \/ activeNovelId = NoId) /\ CalledAndEnded)
     => (/\ out'.chunk = NoChunk
         /\ cursors' = cursors
         /\ out'.via = "send" =>
              /\ out'.kind = "passthrough"
              /\ out'.dispatched = <<Dispatch(out'.text, TRUE)>>
         /\ out'.via = "manual" =>
              /\ out'.kind = "rejected"
              /\ out'.report = "warning"
              /\ out'.dispatched = <<>>)]_vars

\* The disabled controller passed a text through while a novel was partly read.
C5_Witness ==
  /\ ~isEnabled
  /\ out.kind = "passthrough"
  /\ out.text = <<"h", "i">>
  /\ \E id \in DOMAIN novels : novels[id].currentParagraph > 0

\* C6: when a chunk is produced for a non-empty original text, the string
\* handed to the send function contains the original text.
C6_OriginalTextKept ==
  (out.chunk # NoChunk /\ out.text # <<>>) =>
    Includes(out.dispatched[1].text, out.text)

\* C7: an invocation that ended in the catch block reported the error and
\* sent the original text, unchanged, exactly once, and nothing else was
\* delivered.
C7_FailureFallsBack ==
  out.kind = "fallback" =>
    /\ out.report = "error"
    /\ Cardinality({k \in 1..Len(out.dispatched) : out.dispatched[k].ok}) = 1
    /\ \A k \in 1..Len(out.dispatched) :
         out.dispatched[k].ok => out.dispatched[k].text = out.text

\* The send function threw on a formatted chunk for a non-empty text.
C7_Witness ==
  /\ out.kind = "fallback"
  /\ out.chunk # NoChunk
  /\ out.text # <<>>
  /\ Len(out.dispatched) = 2

\* C8: a text that carries the marker formatChunkContent appends is passed
\* through unchanged by the wrapper and no chunk is produced for it.
C8_OwnMarkerRecognised ==
  (out.via = "send" /\ Includes(out.text, InjectedSuffix)) =>
    /\ out.kind = "passthrough"
    /\ out.chunk = NoChunk
    /\ out.dispatched = <<Dispatch(out.text, TRUE)>>

\* C9: an invocation that was in flight while another one computed a chunk
\* does not compute its own chunk from the same cursor.  (The two steps are
\* consecutive, so both chunks are taken from the same active novel.)
C9_NoSharedCursor ==
  [][(/\ out.chunk # NoChunk
      /\ out'.chunk # NoChunk
      /\ out'.via = "fetch")
     => out'.chunk.startParagraph # out.chunk.startParagraph]_vars

(***************************************************************************)
(* Properties of autopilot (AutoPilotSpec).                                *)
(***************************************************************************)
\* C10: a turn-complete signal that arms a timer leaves exactly one timer
\* pending, due a full delay after that signal; the timer that fires is the
\* one armed last, it fires its delay after it was armed, and no other
\* delivery stays scheduled.
C10_Debounced ==
  [][/\ (autoPilotTimer' # autoPilotTimer /\ autoPilotTimer' # 0) =>
          timers' = {Timer(autoPilotTimer', autoPilotDelay \div 1000, timers # {})}
     /\ fired' # NoFire =>
          /\ fired'.id = autoPilotTimer
          /\ fired'.elapsed = fired'.delay
          /\ timers' = {}]_vars

\* The timer armed by a second signal within the delay window fired and
\* delivered a chunk.
C10_Witness ==
  /\ fired # NoFire
  /\ fired.replaced
  /\ out.kind = "chunk"

(***************************************************************************)
(* C11: disable() cancels the armed autopilot timer: no timer is pending   *)
(* in any Disabled state, and a timer that fires was pending in an Enabled *)
(* state and was not cancelled by the step before, so a timer armed before *)
(* disable() triggers nothing afterwards, re-enabled or not.               *)
(***************************************************************************)
C11_DisableCancelsTimer ==
  /\ [](~isEnabled => timers = {})
  /\ [][fired' # NoFire => /\ isEnabled
                           /\ fired' \in timers
                           /\ fired' \notin cleared]_vars

\* A Disabled state whose last step, disable(), cancelled a pending timer.
C11_Witness == ~isEnabled /\ cleared # {} /\ timers = {} /\ autoPilotTimer = 0

(***************************************************************************)
(* C12 as stated: a timer that fires invokes the act-path once with empty  *)
(* input, and afterwards no timer is recorded as armed (the handle is      *)
(* null and nothing is pending).                                           *)
(***************************************************************************)
C12_FireInvokesAndDisarms ==
  [][fired' # NoFire => /\ out'.via = "timer"
                        /\ out'.kind # "none"
                        /\ out'.text = <<>>
                        /\ autoPilotTimer' = 0
                        /\ timers' = {}]_vars

(***************************************************************************)
(* C12 amended: a timer that fires with autopilot still on invokes the     *)
(* act-path once with empty input, and invokes nothing when autopilot was  *)
(* switched off meanwhile; after the fire no timer is pending, the handle  *)
(* keeps the id of the fired timer unless the invocation disabled the      *)
(* controller; the act-path runs for the timer only in a step that fires   *)
(* one, and a timer becomes pending only by a turn-complete signal.        *)
(***************************************************************************)
C12_FireInvokesWhileOn ==
  [][/\ fired' # NoFire =>
          /\ timers' = {}
          /\ IF isAutoPilotEnabled
             THEN /\ out'.via = "timer"
                  /\ out'.text = <<>>
                  /\ out'.kind \in {"chunk", "exhausted", "fallback"}
             ELSE out' = NoOut
          /\ autoPilotTimer' = IF isEnabled' THEN fired'.id ELSE 0
     /\ out'.via = "timer" => fired' # NoFire
     /\ (timers = {} /\ timers' # {}) =>
          /\ isAutoPilotEnabled /\ isEnabled
          /\ fired' = NoFire /\ out' = NoOut
          /\ timers' = {Timer(autoPilotTimer', autoPilotDelay \div 1000, FALSE)}]_vars

\* A timer fired and a chunk was delivered for it; nothing is pending and
\* the handle still names the fired timer.
C12_Witness ==
  /\ fired # NoFire
  /\ out.via = "timer" /\ out.kind = "chunk" /\ out.text = <<>>
  /\ timers = {}
  /\ autoPilotTimer = fired.id

\* The step ran handleInterception from its call to its end.
Intercepted == CalledAndEnded /\ out'.kind \in {"chunk", "exhausted", "fallback"}

(***************************************************************************)
(* C13: an invocation that reports exhaustion delivers no chunk, disables  *)
(* the controller and leaves every cursor where it was; enable() moves no  *)
(* cursor; as long as the progress of a novel reported exhausted is not    *)
(* reset, every invocation for it reports exhaustion again; a reset puts   *)
(* the cursor at paragraph 0 and a delivered chunk starts at the cursor.   *)
(* Violated: an invocation that was waiting for its fetch while another    *)
(* novel was selected reports exhaustion for a novel that has paragraphs   *)
(* left (C9), and the next invocation for that novel delivers a chunk.     *)
(***************************************************************************)
C13_ExhaustionSticks ==
  [][/\ out'.kind = "exhausted" =>
          /\ out'.chunk = NoChunk
          /\ out'.dispatched = <<Dispatch(out'.text, TRUE)>>
          /\ ~isEnabled' /\ activeNovelId' = NoId
          /\ cursors' = cursors
     /\ (~isEnabled /\ isEnabled') => cursors' = cursors
     /\ (Intercepted /\ activeNovelId # NoId /\ reported[activeNovelId] > 0) =>
          out'.kind = "exhausted"
     /\ (Intercepted /\ out'.kind = "chunk") =>
          out'.chunk.startParagraph = getNovel(activeNovelId).currentParagraph
     /\ \A id \in NovelIds : (reported[id] > 0 /\ reported'[id] = 0) =>
                               getNovel(id)'.currentParagraph = 0]_vars

(***************************************************************************)
(* C14: an Enabled controller's activeNovelId names a novel of the store,  *)
(* in every state reached by selecting and deleting novels of the list and *)
(* by the act-path.  Violated: a novel selected while its delete request   *)
(* is in flight is removed when the request returns.                       *)
(***************************************************************************)
C14_ActiveNovelExists == isEnabled => getNovel(activeNovelId).exists

\* The controller state loadSettings() would restore from storage st.
restored(st) ==
  LET saved == getStorage(st, "settings")
  IN [isEnabled |-> saved.enabled,
      activeNovelId |-> saved.activeNovelId,
      isAutoPilotEnabled |-> saved.autopilotEnabled,
      autoPilotDelay |-> (IF saved.autopilotDelay = 0 THEN 3
                          ELSE saved.autopilotDelay) * 1000]

(***************************************************************************)
(* C15: the persisted settings hold the controller's enabled flag, active  *)
(* novel and autopilot values: loadSettings() would restore the state the  *)
(* controller has in memory.  Violated: the panel saves its own object,    *)
(* whose enabled flag and active novel are those of start-up.              *)
(***************************************************************************)
C15_SettingsPersisted ==
  restored(storage) = [isEnabled |-> isEnabled,
                       activeNovelId |-> activeNovelId,
                       isAutoPilotEnabled |-> isAutoPilotEnabled,
                       autoPilotDelay |-> autoPilotDelay]

\* The currentParagraph the storage holds for novel id; -1: it holds none.
persistedCursor(id) ==
  LET saved == getStorage(storage, "novels")
  IN IF id \in DOMAIN saved THEN saved[id].currentParagraph ELSE -1

(***************************************************************************)
(* C16: when an act-path invocation reads the cursor of the active novel,  *)
(* the storage holds the same currentParagraph for that novel.  Violated:  *)
(* clearAllData() empties the stored novels and leaves the novels of the   *)
(* store in memory, where the list shows them and one can be selected.     *)
(***************************************************************************)
C16_CursorPersisted ==
  [][(Intercepted /\ getNovel(activeNovelId).exists) =>
        persistedCursor(activeNovelId) = getNovel(activeNovelId).currentParagraph]_vars

\* The word budget getNextChunk works with.
budget ==
  IF tpSettings.targetWordCount = 0 THEN defaultTargetWordCount
  ELSE tpSettings.targetWordCount

\* The words of the paragraphs with 0-based indices a .. b - 1.
RECURSIVE wordsIn(_, _, _)
wordsIn(paragraphs, a, b) ==
  IF a >= b THEN 0 ELSE countWords(paragraphs[a + 1]) + wordsIn(paragraphs, a + 1, b)

(***************************************************************************)
(* C17: when the words collected reach the budget with a paragraph that    *)
(* does not end on terminal punctuation, and the next paragraph exists and *)
(* has fewer than 100 words, the chunk extends past that next paragraph.   *)
(* Violated: the iteration that follows the lookahead finds the chunk not  *)
(* empty and the next paragraph over the budget, and stops before it.      *)
(***************************************************************************)
C17_ShortNextAbsorbed ==
  cLast.chunk # NoChunk =>
    \A i \in cLast.s .. (cLast.chunk.endParagraph - 1) :
      (/\ wordsIn(cParagraphs, cLast.s, i + 1) >= budget
       /\ ~isGoodBreakPoint(cParagraphs[i + 1])
       /\ i + 1 < Len(cParagraphs)
       /\ countWords(cParagraphs[i + 2]) < ShortParagraphWords)
      => cLast.chunk.endParagraph > i + 1

linesOf(chunk) == [i \in 1..Len(SplitLines(chunk.content)) |->
                     Trim(SplitLines(chunk.content)[i])]

\* The label of a heading line: the line, or its first 50 characters and
\* three dots when it is longer.
labelOf(line) ==
  IF Len(line) <= ChapterLabelMax THEN line
  ELSE [i \in 1..(ChapterLabelMax + 3) |-> IF i <= ChapterLabelMax THEN line[i] ELSE "."]

(***************************************************************************)
(* C19: the chapter of a chunk is the label of the first line of its text  *)
(* that matches a chapter pattern; when no line matches it is U+7B2C, the  *)
(* number floor(startParagraph / 50) + 1 and U+7AE0.                       *)
(***************************************************************************)
C19_ChapterLabel ==
  cLast.chunk # NoChunk =>
    LET lines == linesOf(cLast.chunk)
    IN /\ \A h \in 1..Len(lines) :
            (/\ matchesChapterPattern(lines[h])
             /\ \A j \in 1..(h - 1) : ~matchesChapterPattern(lines[j]))
            => cLast.chunk.chapter = labelOf(lines[h])
       /\ (\A h \in 1..Len(lines) : ~matchesChapterPattern(lines[h])) =>
            cLast.chunk.chapter =
              <<"di">> \o NumStr((cLast.chunk.startParagraph \div ParagraphsPerChapter) + 1)
                \o <<"zhang">>

\* A chunk whose first line is no heading and whose label is a later line
\* cut at 50 characters.
C19_Witness ==
  /\ cLast.chunk # NoChunk
  /\ ~matchesChapterPattern(linesOf(cLast.chunk)[1])
  /\ Len(cLast.chunk.chapter) = ChapterLabelMax + 3
  /\ \E h \in 2..Len(linesOf(cLast.chunk)) : Len(linesOf(cLast.chunk)[h]) > ChapterLabelMax

(***************************************************************************)
(* The hidden-content markers (ui/uiManager.js, ui/renderer.js).           *)
(***************************************************************************)
\* '[NJ_START]' and '[NJ_END]'
NJStart == <<"[", "N", "J", "_", "S", "T", "A", "R", "T", "]">>
NJEnd == <<"[", "N", "J", "_", "E", "N", "D", "]">>

\* The places of text s where needle starts, from place from on.
IndicesOf(s, needle, from) ==
  {i \in from..(Len(s) - Len(needle) + 1) : SubSeq(s, i, i + Len(needle) - 1) = needle}

\* What String.prototype.match returns when the pattern does not match.
NoMatch == <<"null">>

\* processUserMessage(messageNode): match[1] of
\* /\[NJ_START\](.*?)\[NJ_END\]/s on the content of the message, the text the
\* renderer folds; NoMatch when the message is left as it is.
processUserMessage(messageContent) ==
  LET starts == {i \in IndicesOf(messageContent, NJStart, 1) :
                   IndicesOf(messageContent, NJEnd, i + Len(NJStart)) # {}}
  IN IF starts = {} THEN NoMatch
     ELSE LET i == CHOOSE x \in starts : \A y \in starts : x <= y
              ends == IndicesOf(messageContent, NJEnd, i + Len(NJStart))
              j == CHOOSE x \in ends : \A y \in ends : x <= y
          IN SubSeq(messageContent, i + Len(NJStart), j - 1)

\* '{chapter} (' U+6BB5 U+843D ' {start_para}-{end_para})', the template
\* handleNextChunk uses when the textarea is empty.
DefaultPrefixTemplate ==
  PhChapter \o <<" ", "(", "duan", "luo", " ">> \o PhStartPara \o <<"-">> \o PhEndPara
    \o <<")">>

\* U+672A U+77E5 U+7AE0 U+8282, the chapter of a chunk that names none.
UnknownChapter == <<"wei", "zhi", "zhang", "jie">>

\* handleNextChunk(chunkData): the text it hands to sendOriginal, value being
\* the content of the prefix textarea and checked the hidden-content box.
handleNextChunk(value, checked, chunkData) ==
  LET prefixTemplate == IF value # <<>> THEN value ELSE DefaultPrefixTemplate
      r1 == ReplaceFirst(prefixTemplate, PhChapter,
                         IF chunkData.chapter # <<>> THEN chunkData.chapter
                         ELSE UnknownChapter)
      r2 == ReplaceFirst(r1, PhStartPara, NumStr(chunkData.start_para + 1))
      prefix == ReplaceFirst(r2, PhEndPara, NumStr(chunkData.end_para + 1))
  IN IF checked THEN prefix \o NJStart \o chunkData.text \o NJEnd
     ELSE prefix \o BlankLine \o chunkData.text

(***************************************************************************)
(* C20: a chunk formatted in collapse mode carries the start marker, the   *)
(* raw content of the chunk and the end marker, in this order and next to  *)
(* each other, and the renderer that takes the text between the markers    *)
(* gets the raw content.  This is so for the text the engine dispatches    *)
(* and for the text handleNextChunk builds from the same chunk.            *)
(***************************************************************************)
C20_SentinelsBracketContent ==
  (out.kind = "chunk" /\ settings.collapseContent) =>
    /\ \A t \in {out.dispatched[1].text,
                 handleNextChunk(<<>>, TRUE,
                                 [text |-> out.chunk.content,
                                  chapter |-> out.chunk.chapter,
                                  start_para |-> out.chunk.startParagraph,
                                  end_para |-> out.chunk.endParagraph])} :
         /\ Includes(t, NJStart \o out.chunk.content \o NJEnd)
         /\ processUserMessage(t) = out.chunk.content

(***************************************************************************)
(* C21: a store operation that throws (uploadNovel for a wrong extension,  *)
(* for a file over the size limit, for a failed upload or a failed read of *)
(* the file; updateProgress, resetProgress, deleteNovel and                *)
(* reloadNovelContent for an id that is not in the store, or for a request *)
(* that fails) leaves the novel map and the stored metadata as they were.  *)
(***************************************************************************)
C21_FailureChangesNothing ==
  [][(out'.kind = "store" /\ out'.report = "error") =>
       /\ novels' = novels
       /\ storage' = storage
       /\ out'.via \in {"updateProgress", "resetProgress"} =>
            \E id \in NovelIds : ~getNovel(id).exists]_vars

\* An upload failed after the cursor of a stored novel had moved: the
\* second novel is still not registered.
C21_Witness ==
  /\ out.kind = "store"
  /\ out.via = "uploadNovel"
  /\ out.report = "error"
  /\ novels["n2"] = NoNovel
  /\ getAllNovels(novels) = {"n1"}
  /\ novels["n1"].currentParagraph > 0
  /\ DOMAIN storage.novels = {"n1"}

(***************************************************************************)
(* C22: the cursor of every novel of the store is at least 0 and at most   *)
(* the number of its paragraphs, whatever index updateProgress is given    *)
(* and also for a novel without paragraphs.                                *)
(***************************************************************************)
C22_CursorInRange ==
  \A id \in NovelIds :
    getNovel(id).exists =>
      /\ 0 <= getNovel(id).currentParagraph
      /\ getNovel(id).currentParagraph <= getNovel(id).totalParagraphs

\* updateProgress returned for a novel that was uploaded without paragraphs.
C22_Witness ==
  /\ out.kind = "store"
  /\ out.via = "updateProgress"
  /\ out.report = "none"
  /\ getNovel("n2").exists
  /\ getNovel("n2").totalParagraphs = 0
  /\ getNovel("n1").currentParagraph = getNovel("n1").totalParagraphs - 1

(***************************************************************************)
(* C23: a step that delivers nothing and starts no invocation (enable,     *)
(* disable) changes no cursor, and a chunk that is delivered starts at the *)
(* cursor the active novel had before the step: delivery resumes where it  *)
(* stopped, and after enable(otherId) it is taken from the other novel's   *)
(* own cursor.                                                             *)
(***************************************************************************)
C23_ResumeAtOwnCursor ==
  [][/\ (out' = NoOut /\ inflight' = inflight) => cursors' = cursors
     /\ out'.kind = "chunk" =>
          out'.chunk.startParagraph = getNovel(activeNovelId).currentParagraph]_vars

(***************************************************************************)
(* The interception over the WebSocket: Interceptor (ui/progressBar.js),   *)
(* UIManager (ui/uiManager.js), the backend's onMessage (ui/renderer.js)   *)
(* and NovelManager (core/injectionEngine.js).  A message is routed by its *)
(* event name; the socket delivers the messages of each direction in the   *)
(* order they were sent.                                                   *)
(***************************************************************************)
\* The chunk size triggerNovelInjection uses when the input holds no number.
DefaultChunkSize == 500

\* The length of the match of /\r?\n\r?\n/ at place i of s (0: no match).
separatorAt(s, i) ==
  LET a == IF s[i] = "\r" THEN 1 ELSE 0
  IN IF i + a > Len(s) \/ s[i + a] # "\n" THEN 0
     ELSE LET b == IF i + a + 1 <= Len(s) /\ s[i + a + 1] = "\r" THEN 1 ELSE 0
          IN IF i + a + b + 1 <= Len(s) /\ s[i + a + b + 1] = "\n" THEN a + b + 2 ELSE 0

\* content.split(/\r?\n\r?\n/)
RECURSIVE splitParagraphs(_)
splitParagraphs(s) ==
  LET seps == {i \in 1..Len(s) : separatorAt(s, i) > 0}
  IN IF seps = {} THEN <<s>>
     ELSE LET i == CHOOSE x \in seps : \A y \in seps : x <= y
          IN <<SubSeq(s, 1, i - 1)>>
               \o splitParagraphs(SubSeq(s, i + separatorAt(s, i), Len(s)))

\* paragraph.match(/^第.*章.*/gm): the first line that starts with U+7B2C
\* and holds U+7AE0 behind it, <<>> when there is none.
chapterMatch(paragraph) ==
  LET lines == SplitLines(paragraph)
      hits == {i \in 1..Len(lines) :
                 /\ Len(lines[i]) >= 2
                 /\ lines[i][1] = "di"
                 /\ \E k \in 2..Len(lines[i]) : lines[i][k] = "zhang"}
  IN IF hits = {} THEN <<>> ELSE lines[CHOOSE i \in hits : \A j \in hits : i <= j]

\* The chapter loadNovel gives paragraph i: the last match up to it.
lastChapter(paragraphs, i) ==
  LET hits == {j \in 1..i : chapterMatch(paragraphs[j]) # <<>>}
  IN IF hits = {} THEN <<>>
     ELSE chapterMatch(paragraphs[CHOOSE j \in hits : \A k \in hits : k <= j])

\* NovelManager.loadNovel(fileName), content being the text of the file:
\* the paragraphs it stores.
loadNovel(content) ==
  LET paragraphs == SelectSeq(splitParagraphs(content), LAMBDA q : Trim(q) # <<>>)
  IN [i \in 1..Len(paragraphs) |->
        [text |-> paragraphs[i], chapter |-> lastChapter(paragraphs, i)]]

\* getNextChunk returning null.
NoChunkData == [text |-> <<>>, start_para |-> -1, end_para |-> -1, chapter |-> <<>>]

\* currentText once the paragraphs startPara..i are added (0-based).
RECURSIVE textUpTo(_, _, _)
textUpTo(paras, startPara, i) ==
  IF i < startPara THEN <<>>
  ELSE textUpTo(paras, startPara, i - 1) \o paras[i + 1].text \o BlankLine

\* NovelManager.getNextChunk(chunkSize) on the paragraphs paras with the
\* index idx: the chunk it returns.
nmGetNextChunk(paras, idx, chunkSize) ==
  IF Len(paras) = 0 \/ idx >= Len(paras) - 1 THEN NoChunkData
  ELSE LET startPara == idx + 1
           full == {i \in startPara..(Len(paras) - 1) :
                      Len(textUpTo(paras, startPara, i)) >= chunkSize}
           endPara == IF full = {} THEN Len(paras) - 1
                      ELSE CHOOSE i \in full : \A j \in full : i <= j
           named == {i \in startPara..endPara : paras[i + 1].chapter # <<>>}
       IN [text |-> Trim(textUpTo(paras, startPara, endPara)),
           start_para |-> startPara,
           end_para |-> endPara,
           chapter |-> IF named = {} THEN <<>>
                       ELSE paras[(CHOOSE i \in named : \A j \in named : i <= j) + 1].chapter]

\* The files of the backend's novels directory.
LegacyFiles == {<<>>, ParaWord, Join(<<ParaHeading, ParaSentence, ParaWord>>, BlankLine)}

\* What the steps of this path leave alone.
legacyFrame ==
  /\ UNCHANGED <<novels, files, tpSettings>>
  /\ UNCHANGED engineVars
  /\ UNCHANGED listVars
  /\ UNCHANGED harnessVars

\* The user checks or unchecks the box of the plugin.
PluginEnabledChange ==
  /\ pluginEnabled' = ~pluginEnabled
  /\ wsSent' = <<>>
  /\ UNCHANGED <<chunkSizeInput, novelParagraphs, currentIndex, wsRequests, wsResponses>>
  /\ legacyFrame

\* The user types a chunk size.
ChunkSizeChange ==
  \E typed \in {0, 1, Len(ParaHeading) + Len(BlankLine) + 1} :
    /\ chunkSizeInput' = typed
    /\ wsSent' = <<>>
    /\ UNCHANGED <<pluginEnabled, novelParagraphs, currentIndex, wsRequests, wsResponses>>
    /\ legacyFrame

\* The buttons that load a novel and reset the progress: the request is
\* sent to the backend.
NovelButtons ==
  \E request \in {[event |-> "RESET_PROGRESS"]}
                   \cup {[event |-> "LOAD_NOVEL", content |-> c] : c \in LegacyFiles} :
    /\ Len(wsRequests) + Len(wsResponses) < MaxInflight
    /\ wsRequests' = Append(wsRequests, request)
    /\ wsSent' = <<>>
    /\ UNCHANGED <<pluginEnabled, chunkSizeInput, novelParagraphs, currentIndex,
                   wsResponses>>
    /\ legacyFrame

\* window.sendMessage(text), the wrapper: Interceptor.interceptSendMessage
\* and, with the box checked, UIManager.triggerNovelInjection.
InterceptSendMessage ==
  \E text \in {<<>>, <<"h", "i">>} :
    /\ IF ~pluginEnabled
       THEN /\ wsSent' = <<Dispatch(text, TRUE)>>
            /\ UNCHANGED wsRequests
       ELSE /\ Len(wsRequests) + Len(wsResponses) < MaxInflight
            /\ wsRequests' = Append(wsRequests,
                                    [event |-> "GET_NEXT_CHUNK",
                                     chunkSize |-> IF chunkSizeInput = 0
                                                   THEN DefaultChunkSize
                                                   ELSE chunkSizeInput,
                                     originalText |-> text])
            /\ wsSent' = <<>>
    /\ UNCHANGED <<pluginEnabled, chunkSizeInput, novelParagraphs, currentIndex,
                   wsResponses>>
    /\ legacyFrame

\* onMessage(message) of the backend for the oldest request.  The answer to
\* a chunk request is the chunk alone; asked is kept for the properties.
OnMessage ==
  /\ wsRequests # <<>>
  /\ LET message == Head(wsRequests)
     IN /\ wsRequests' = Tail(wsRequests)
        /\ IF message.event = "LOAD_NOVEL"
           THEN /\ novelParagraphs' = loadNovel(message.content)
                /\ currentIndex' = -1
                /\ wsResponses' = Append(wsResponses, [event |-> "LOAD_NOVEL"])
           ELSE IF message.event = "RESET_PROGRESS"
           THEN /\ currentIndex' = -1
                /\ wsResponses' = Append(wsResponses, [event |-> "RESET_PROGRESS"])
                /\ UNCHANGED novelParagraphs
           ELSE LET chunk == nmGetNextChunk(novelParagraphs, currentIndex,
                                            message.chunkSize)
                IN /\ currentIndex' = IF chunk = NoChunkData THEN currentIndex
                                      ELSE chunk.end_para
                   /\ wsResponses' = Append(wsResponses,
                                            [event |-> "GET_NEXT_CHUNK", data |-> chunk,
                                             asked |-> message.originalText])
                   /\ UNCHANGED novelParagraphs
  /\ wsSent' = <<>>
  /\ UNCHANGED <<pluginEnabled, chunkSizeInput>>
  /\ legacyFrame

\* UIManager.handleWebSocketMessage(event) for the oldest answer: a chunk
\* goes to handleNextChunk, which sends nothing when the data are null.
HandleWebSocketMessage ==
  /\ wsResponses # <<>>
  /\ LET message == Head(wsResponses)
     IN /\ wsResponses' = Tail(wsResponses)
        /\ IF message.event = "GET_NEXT_CHUNK" /\ message.data # NoChunkData
           THEN \E checked \in BOOLEAN :
                  wsSent' = <<Dispatch(handleNextChunk(<<>>, checked, message.data), TRUE)>>
           ELSE wsSent' = <<>>
  /\ UNCHANGED <<pluginEnabled, chunkSizeInput, novelParagraphs, currentIndex, wsRequests>>
  /\ legacyFrame

LegacyInit ==
  /\ StartUpEngine(FirstNovel(1), 0, FALSE)
  /\ pluginEnabled = FALSE
  /\ chunkSizeInput = 0
  /\ novelParagraphs = <<>>
  /\ currentIndex = -1
  /\ wsRequests = <<>>
  /\ wsResponses = <<>>
  /\ wsSent = <<>>

LegacyNext ==
  \/ PluginEnabledChange
  \/ ChunkSizeChange
  \/ NovelButtons
  \/ InterceptSendMessage
  \/ OnMessage
  \/ HandleWebSocketMessage

LegacySpec == LegacyInit /\ [][LegacyNext]_vars

(***************************************************************************)
(* C24: over the WebSocket, the answer to every intercepted send leads to  *)
(* exactly one call of the original send function, and when the backend    *)
(* had no chunk left (or no novel loaded) the text sent is the user's      *)
(* original text.                                                          *)
(***************************************************************************)
C24_OriginalSentWhenNoChunk ==
  [][(/\ wsResponses # <<>>
      /\ wsResponses' = Tail(wsResponses)
      /\ Head(wsResponses).event = "GET_NEXT_CHUNK")
     => /\ Len(wsSent') = 1
        /\ Head(wsResponses).data = NoChunkData =>
             wsSent'[1].text = Head(wsResponses).asked]_vars

\* The end of the chunk the plain greedy rule takes from cursor s with the
\* budget b: paragraph s, then the paragraphs that follow for as long as the
\* words collected stay within b.
greedyEnd(paragraphs, s, b) ==
  LET ends == {e \in (s + 1)..Len(paragraphs) :
                 \A k \in (s + 2)..e : wordsIn(paragraphs, s, k) <= b}
  IN CHOOSE e \in ends : \A f \in ends : f <= e

C26_FallbackKeepsCursor ==
  [][out'.kind = "fallback" => cursors' = cursors]_vars

(***************************************************************************)
(* C27: a timer that fires while autopilot is off (it was switched off     *)
(* after the timer was armed and not switched on again) runs no act-path   *)
(* invocation: nothing is dispatched, no cursor and no stored metadata     *)
(* change, and the controller stays as it was.                             *)
(***************************************************************************)
C27_OffTimerDoesNothing ==
  [][(fired' # NoFire /\ ~isAutoPilotEnabled) =>
       /\ out'.kind = "none"
       /\ out'.dispatched = <<>>
       /\ novels' = novels
       /\ storage' = storage
       /\ isEnabled' = isEnabled
       /\ activeNovelId' = activeNovelId]_vars

\* A timer fired with autopilot off and the controller still enabled for a
\* novel that has paragraphs left.
C27_Witness ==
  /\ fired # NoFire
  /\ ~isAutoPilotEnabled
  /\ isEnabled
  /\ activeNovelId # NoId
  /\ getNovel(activeNovelId).currentParagraph < getNovel(activeNovelId).totalParagraphs
  /\ out = NoOut
  /\ timers = {}

(***************************************************************************)
(* C28: at most one autopilot timer is pending in every reachable state,   *)
(* whatever the order of turn-complete signals (two or more for one        *)
(* message included), enable, disable, setAutoPilot and timer fires; the   *)
(* pending timer is the one the controller holds the handle of.            *)
(***************************************************************************)
C28_AtMostOneTimer ==
  /\ Cardinality(timers) <= 1
  /\ \A t \in timers : t.id = autoPilotTimer

\* A second turn-complete signal arrived while a timer was pending: the
\* step cancelled that timer and armed the one that is pending now.
C28_Witness ==
  /\ Cardinality(timers) = 1
  /\ \E t \in timers : t.replaced /\ t.elapsed = 0
  /\ cleared # {}
  /\ isAutoPilotEnabled /\ isEnabled

\* The novels whose cursor, paragraph count or paragraphs the step changes.
touched ==
  {id \in NovelIds :
     \/ novels'[id].currentParagraph # novels[id].currentParagraph
     \/ novels'[id].totalParagraphs # novels[id].totalParagraphs
     \/ novels'[id].paragraphs # novels[id].paragraphs}

(***************************************************************************)
(* C29: a step of an act-path invocation (one that ends an invocation or   *)
(* puts one in flight) changes the cursor, the paragraph count and the     *)
(* paragraphs of one novel at most, and that novel is the one active when  *)
(* the invocation began or the one active when the step is taken.          *)
(***************************************************************************)
C29_OnlyActiveNovelTouched ==
  [][(out' # NoOut \/ inflight' # inflight) =>
       /\ Cardinality(touched) <= 1
       /\ touched \subseteq
            ({activeNovelId} \cup {inflight[k].novelId : k \in 1..Len(inflight)})]_vars

(***************************************************************************)
(* C30: after clearAllData() (the step that empties the stored novels) the *)
(* controller is Disabled with no active novel, the stored settings and    *)
(* the stored novels are empty, and the store in memory holds no novel:    *)
(* getNovel finds none of the ids.  Violated: fileManager.init() adds the  *)
(* stored novels to the map and removes none.                              *)
(***************************************************************************)
C30_AllDataCleared ==
  [][(storage.novels # <<>> /\ storage'.novels = <<>>) =>
       /\ ~isEnabled'
       /\ activeNovelId' = NoId
       /\ storage'.settings = NoSettings
       /\ getAllNovels(novels') = {}
       /\ \A id \in NovelIds : ~novels'[id].exists]_vars

=============================================================================
